---- MODULE Spec2Model ----
(***************************************************************************)
(* The shared database access layer of InsecureGoMonorepo                  *)
(* (pkg/database: schema bootstrap, seed loader, query executor) and the   *)
(* start-up of users-service, as a state machine.                          *)
(*                                                                         *)
(* Go strings the code inspects character by character (the query text,    *)
(* the value of DB_AUTO_SEED) are sequences of one-character strings.      *)
(* Paths are only compared with "" by the code and stay atomic strings.    *)
(* The SQLite engine is the environment: a store of three tables shared by *)
(* every connection of the process (file::memory:?cache=shared), which     *)
(* lives exactly as long as one connection to it is open.                  *)
(***************************************************************************)
EXTENDS Integers, Sequences, FiniteSets, TLC

VARIABLES
    cwd,        \* the working directory the process was started in
    store,      \* the shared in-memory SQLite database
    adapters,   \* the *Database values constructed so far: the state of each conn
    svc,        \* users-service: position of main and the package-level db
    seeded,     \* the seed files executed without error since the process started
    hashed,     \* the HashPassword calls so far: per plaintext, their number and results
    gateway,    \* api-gateway: position of main and the package-level service URLs
    demo,       \* cmd/demo: position of main and its three adapters
    reqs,       \* users-service: the POST /users requests in flight, each on its goroutine
    upload,     \* the scan upload script: the position of its upload loop and the fragments sent
    last        \* what the most recent operation did and returned

vars == <<cwd, store, adapters, svc, seeded, hashed, gateway, demo, reqs, upload, last>>

----------------------------------------------------------------------------
(* Bounds of the model *)

MaxAdapters == 2        \* adapters constructed in one behaviour
MaxId == 2              \* AUTOINCREMENT ids handed out per table
\* the calls of HashPassword on one plaintext
MaxHashCalls == 2
\* the members of a configuration file
MaxMembers == 2
\* the POST /users requests served at the same time
MaxRequests == 2
\* the length of a package file, in bytes
MaxLength == 4
\* the chunk size, in bytes
MaxChunk == 3

----------------------------------------------------------------------------
(* Go strings: package strings and unicode *)

\* unicode.ToUpper on the letters the model's texts use
ToUpperCh(c) ==
    CASE c = "a" -> "A" [] c = "c" -> "C" [] c = "d" -> "D" [] c = "e" -> "E"
      [] c = "f" -> "F" [] c = "i" -> "I" [] c = "l" -> "L" [] c = "n" -> "N"
      [] c = "r" -> "R" [] c = "s" -> "S" [] c = "t" -> "T" [] c = "u" -> "U"
      [] c = "v" -> "V" [] c = "x" -> "X" [] c = "y" -> "Y"
      [] OTHER -> c

\* unicode.ToLower on the letters the model's texts use
ToLowerCh(c) ==
    CASE c = "A" -> "a" [] c = "C" -> "c" [] c = "D" -> "d" [] c = "E" -> "e"
      [] c = "F" -> "f" [] c = "I" -> "i" [] c = "L" -> "l" [] c = "N" -> "n"
      [] c = "R" -> "r" [] c = "S" -> "s" [] c = "T" -> "t" [] c = "U" -> "u"
      [] c = "V" -> "v" [] c = "X" -> "x" [] c = "Y" -> "y"
      [] OTHER -> c

ToUpper(s) == [i \in 1..Len(s) |-> ToUpperCh(s[i])]

ToLower(s) == [i \in 1..Len(s) |-> ToLowerCh(s[i])]

\* unicode.IsSpace
IsSpace(c) == c \in {" ", "\t", "\n", "\r"}

RECURSIVE TrimLeft(_)
TrimLeft(s) ==
    IF s # <<>> /\ IsSpace(Head(s)) THEN TrimLeft(Tail(s)) ELSE s

RECURSIVE TrimRight(_)
TrimRight(s) ==
    IF s # <<>> /\ IsSpace(s[Len(s)]) THEN TrimRight(SubSeq(s, 1, Len(s) - 1)) ELSE s

\* strings.TrimSpace: leading and trailing white space removed
TrimSpace(s) == TrimRight(TrimLeft(s))

\* strings.HasPrefix
HasPrefix(s, prefix) ==
    /\ Len(s) >= Len(prefix)
    /\ SubSeq(s, 1, Len(prefix)) = prefix

----------------------------------------------------------------------------
(* The process environment: the three variables pkg/database reads. A call  *)
(* sees the values in force when it is made; they are an input of the call *)
(* and kept in what the call reports.                                      *)

Env(autoSeed, schemaFile, seedFile) ==
    [DB_AUTO_SEED |-> autoSeed, DB_SCHEMA_FILE |-> schemaFile, DB_SEED_FILE |-> seedFile]

Unset == Env(<<>>, "", "")

----------------------------------------------------------------------------
(* The SQL the program hands to the engine *)

DataTables == {"users", "products", "orders"}

Usernames == {"alice", "bob"}
Emails == {"a@example.com"}

AllTables == DataTables \cup {"custom_table"}

\* A statement as the engine parses it. A CREATE TABLE carries whether it says
\* IF NOT EXISTS and whether it declares username UNIQUE.
CreateTable(t, ine, uniq) ==
    [kind |-> "create", table |-> t, ifNotExists |-> ine, unique |-> uniq]
Insert(t, r) == [kind |-> "insert", table |-> t, row |-> r]
Select(t, w) == [kind |-> "select", table |-> t, where |-> w]
Delete(t, w) == [kind |-> "delete", table |-> t, where |-> w]
Values == [kind |-> "values"]
Garbage == [kind |-> "garbage"]

\* WHERE clauses: none, or username = 'u'
All == [all |-> TRUE, username |-> ""]
ByUsername(u) == [all |-> FALSE, username |-> u]

UserRow(u, e, p) == [username |-> u, email |-> e, password |-> p]
ProductRow(n) == [name |-> n]
OrderRow(u, p) == [user_id |-> u, product_id |-> p]

\* the fallback literal with the UNIQUE of users.username left out
embeddedNoUnique ==
    << CreateTable("users", TRUE, FALSE),
       CreateTable("products", TRUE, FALSE),
       CreateTable("orders", TRUE, FALSE) >>

\* the fallback literal with plain CREATE TABLE statements
embeddedPlainCreate ==
    << CreateTable("users", FALSE, TRUE),
       CreateTable("products", FALSE, FALSE),
       CreateTable("orders", FALSE, FALSE) >>

\* the fallback literal of NewDatabase: three CREATE TABLE IF NOT EXISTS
\* statements, users.username declared UNIQUE
embedded ==
    << CreateTable("users", TRUE, TRUE),
       CreateTable("products", TRUE, FALSE),
       CreateTable("orders", TRUE, FALSE) >>

----------------------------------------------------------------------------
(* The engine: one shared in-memory database per process *)

\* The database a first connection finds: no table, no row.
EmptyStore ==
    [ tables |-> {},
      unique |-> {},
      rows   |-> [t \in DataTables |-> <<>>],
      seq    |-> [t \in DataTables |-> 0] ]

\* A WHERE clause given as text: a sequence of words in which "'", "=" and
\* "OR" are words of their own, so that a clause built by concatenation is the
\* concatenation of its parts.
Cond(text) == [all |-> FALSE, username |-> "", text |-> text]

IsText(w) == "text" \in DOMAIN w

\* The engine's lexer: a quote opens a string literal, which runs to the next
\* quote that is not doubled; a doubled quote inside a literal stands for one
\* quote. Outside a literal "=" and "OR" are operators and any other word a
\* column name.
RECURSIVE LexFrom(_, _, _, _, _)
LexFrom(text, i, inLit, lit, out) ==
    IF i > Len(text)
    THEN [ok |-> ~inLit, lex |-> out]
    ELSE IF inLit
    THEN IF text[i] = "'"
         THEN IF i < Len(text) /\ text[i + 1] = "'"
              THEN LexFrom(text, i + 2, TRUE, Append(lit, "'"), out)
              ELSE LexFrom(text, i + 1, FALSE, <<>>, Append(out, [t |-> "str", v |-> lit]))
         ELSE LexFrom(text, i + 1, TRUE, Append(lit, text[i]), out)
    ELSE IF text[i] = "'"
    THEN LexFrom(text, i + 1, TRUE, <<>>, out)
    ELSE IF text[i] \in {"=", "OR"}
    THEN LexFrom(text, i + 1, FALSE, <<>>, Append(out, [t |-> "op", v |-> <<text[i]>>]))
    ELSE LexFrom(text, i + 1, FALSE, <<>>, Append(out, [t |-> "id", v |-> <<text[i]>>]))

Lex(text) == LexFrom(text, 1, FALSE, <<>>, <<>>)

IsOperand(x) == x.t = "str" \/ (x.t = "id" /\ x.v = <<"username">>)

\* the grammar of a clause: comparisons operand = operand joined by OR
WellFormed(w) ==
    IF ~IsText(w) THEN TRUE
    ELSE LET l == Lex(w.text)
             n == Len(l.lex)
         IN  /\ l.ok
             /\ n >= 3
             /\ (n - 3) % 4 = 0
             /\ \A k \in 0..((n - 3) \div 4) :
                   /\ IsOperand(l.lex[4 * k + 1])
                   /\ l.lex[4 * k + 2] = [t |-> "op", v |-> <<"=">>]
                   /\ IsOperand(l.lex[4 * k + 3])
                   /\ k > 0 => l.lex[4 * k] = [t |-> "op", v |-> <<"OR">>]

\* the value of an operand on a row: a literal its text, username the column
OperandValue(row, x) == IF x.t = "str" THEN x.v ELSE <<row.username>>

EvalCond(row, lex) ==
    \E k \in 0..((Len(lex) - 3) \div 4) :
        OperandValue(row, lex[4 * k + 1]) = OperandValue(row, lex[4 * k + 3])

Matches(row, w) ==
    IF IsText(w) THEN EvalCond(row, Lex(w.text).lex)
    ELSE w.all \/ row.username = w.username

RECURSIVE RowsWhere(_, _)
RowsWhere(rs, w) ==
    IF rs = <<>> THEN <<>>
    ELSE IF Matches(Head(rs), w) THEN <<Head(rs)>> \o RowsWhere(Tail(rs), w)
    ELSE RowsWhere(Tail(rs), w)

RECURSIVE RowsNotWhere(_, _)
RowsNotWhere(rs, w) ==
    IF rs = <<>> THEN <<>>
    ELSE IF Matches(Head(rs), w) THEN RowsNotWhere(Tail(rs), w)
    ELSE <<Head(rs)>> \o RowsNotWhere(Tail(rs), w)

\* a UNIQUE column that is never checked
HasUsernameNever(rs, u) == FALSE

HasUsername(rs, u) == \E i \in 1..Len(rs) : rs[i].username = u

Ok(st, rs) == [store |-> st, err |-> "nil", rows |-> rs]
Fail(st, e) == [store |-> st, err |-> e, rows |-> <<>>]

\* One statement run by the engine in autocommit mode: it takes effect whole
\* or, on an error, not at all.
ExecStmt(st, s) ==
    CASE s.kind = "garbage" -> Fail(st, "syntax error")
      [] s.kind = "values" -> Ok(st, <<[column1 |-> 1]>>)
      [] s.kind = "create" ->
            IF s.table \in st.tables
            THEN IF s.ifNotExists THEN Ok(st, <<>>) ELSE Fail(st, "table already exists")
            ELSE Ok([st EXCEPT !.tables = @ \cup {s.table},
                               !.unique = IF s.unique THEN @ \cup {s.table} ELSE @],
                    <<>>)
      [] s.kind = "insert" ->
            IF s.table \notin st.tables THEN Fail(st, "no such table")
            ELSE IF s.table \in st.unique /\ HasUsername(st.rows[s.table], s.row.username)
            THEN Fail(st, "UNIQUE constraint failed")
            ELSE Ok([st EXCEPT
                        !.rows[s.table] = Append(@, [id |-> st.seq[s.table] + 1] @@ s.row),
                        !.seq[s.table] = @ + 1],
                    <<>>)
      [] s.kind = "select" ->
            IF ~WellFormed(s.where) THEN Fail(st, "syntax error")
            ELSE IF s.table \notin st.tables THEN Fail(st, "no such table")
            ELSE IF ~s.where.all /\ s.table # "users" THEN Fail(st, "no such column")
            ELSE IF s.table \notin DataTables THEN Ok(st, <<>>)
            ELSE Ok(st, RowsWhere(st.rows[s.table], s.where))
      [] s.kind = "delete" ->
            IF ~WellFormed(s.where) THEN Fail(st, "syntax error")
            ELSE IF s.table \notin st.tables THEN Fail(st, "no such table")
            ELSE IF ~s.where.all /\ s.table # "users" THEN Fail(st, "no such column")
            ELSE Ok([st EXCEPT !.rows[s.table] = RowsNotWhere(@, s.where)], <<>>)

\* a batch run as one transaction: an error undoes the statements before it
RECURSIVE ExecBatchAtomicFrom(_, _, _)
ExecBatchAtomicFrom(st0, st, stmts) ==
    IF stmts = <<>> THEN [store |-> st, err |-> "nil", done |-> 0]
    ELSE LET r == ExecStmt(st, Head(stmts))
         IN  IF r.err # "nil" THEN [store |-> st0, err |-> r.err, done |-> 0]
             ELSE LET rest == ExecBatchAtomicFrom(st0, r.store, Tail(stmts))
                  IN  [rest EXCEPT !.done = IF rest.err = "nil" THEN @ + 1 ELSE 0]

ExecBatchAtomic(st, stmts) == ExecBatchAtomicFrom(st, st, stmts)

\* A batch of semicolon-separated statements handed to one Exec call: the
\* statements run in order, each committed on its own, and the first error
\* ends the batch. done counts the statements that ran to the end.
RECURSIVE ExecBatch(_, _)
ExecBatch(st, stmts) ==
    IF stmts = <<>> THEN [store |-> st, err |-> "nil", done |-> 0]
    ELSE LET r == ExecStmt(st, Head(stmts))
         IN  IF r.err # "nil" THEN [store |-> r.store, err |-> r.err, done |-> 0]
             ELSE LET rest == ExecBatch(r.store, Tail(stmts))
                  IN  [rest EXCEPT !.done = @ + 1]

----------------------------------------------------------------------------
(* The file system *)

DefaultSchemaPath == "pkg/database/schema.sql"
DefaultSeedPath == "pkg/database/seed.sql"
UsersServiceSeedPath == "services/users-service/seed.sql"

CustomSchemaPath == "/tmp/schema-custom.sql"
BadSchemaPath == "/tmp/schema-bad.sql"
UserSeedPath == "/tmp/seed-user.sql"
MultiSeedPath == "/tmp/seed-multi.sql"
MissingPath == "/tmp/missing.sql"
DupSeedPath == "/tmp/seed-dup.sql"

\* pkg/database/schema.sql with the UNIQUE of users.username left out
schemaFileNoUnique ==
    << CreateTable("users", TRUE, FALSE),
       CreateTable("products", TRUE, FALSE),
       CreateTable("orders", TRUE, FALSE) >>

\* pkg/database/schema.sql
schemaFile ==
    << CreateTable("users", TRUE, TRUE),
       CreateTable("products", TRUE, FALSE),
       CreateTable("orders", TRUE, FALSE) >>

\* the temporary schema of TestNewDatabaseLoadsSchemaFile
customSchema == << CreateTable("custom_table", TRUE, FALSE) >>

\* a schema file whose second statement is not SQL
badSchema == << CreateTable("users", TRUE, TRUE), Garbage >>

\* the temporary seed of TestSeedFromFile: one user
userSeed == << Insert("users", UserRow("alice", "a@example.com", "md5:abc")) >>

\* a seed of two statements: the product of TestAutoSeedFromEnv, then a user
multiSeed ==
    << Insert("products", ProductRow("auto_seed_prod")),
       Insert("users", UserRow("bob", "b@example.com", "md5:abc")) >>

\* a seed of three statements that names one user twice
dupSeed ==
    << Insert("products", ProductRow("dup_seed_prod")),
       Insert("users", UserRow("carol", "c@example.com", "md5:abc")),
       Insert("users", UserRow("carol", "c@example.com", "md5:abc")) >>

\* services/users-service/seed.sql
usersServiceSeed == << Insert("users", UserRow("alice", "a@example.com", "md5:abc")) >>

\* Files of the repository are found through a relative path, so only by a
\* process started in the repository root; temporary files through an absolute one.
FileAt(dir, path) ==
    CASE path = CustomSchemaPath -> [ok |-> TRUE, content |-> customSchema]
      [] path = BadSchemaPath -> [ok |-> TRUE, content |-> badSchema]
      [] path = UserSeedPath -> [ok |-> TRUE, content |-> userSeed]
      [] path = MultiSeedPath -> [ok |-> TRUE, content |-> multiSeed]
      [] path = DupSeedPath -> [ok |-> TRUE, content |-> dupSeed]
      [] path = DefaultSchemaPath /\ dir = "root" -> [ok |-> TRUE, content |-> schemaFile]
      [] path = UsersServiceSeedPath /\ dir = "root" -> [ok |-> TRUE, content |-> usersServiceSeed]
      [] OTHER -> [ok |-> FALSE, content |-> <<>>]

\* os.ReadFile / ioutil.ReadFile
ReadFile(dir, path) == FileAt(dir, path)

----------------------------------------------------------------------------
(* pkg/database: the adapter *)

Adapters == 1..MaxAdapters
Nil == 0                    \* the nil *Database
Receivers == {Nil} \cup Adapters
Zero == -1                  \* &Database{}: an adapter whose conn is nil

\* the guard that lets only a nil adapter through
NoConnNilOnly(isNil, connState) == isNil

\* db == nil || db.conn == nil
NoConn(isNil, connState) == isNil \/ connState = "nil"

\* db.conn.Exec, Query or QueryRow dereferences a nil db or a nil conn
Faults(isNil, connState) == isNil \/ connState = "nil"

\* A Go slice of rows: nil, or a (possibly empty) sequence.
NilRows == [isNil |-> TRUE, elems |-> <<>>]
Rows(rs) == [isNil |-> FALSE, elems |-> rs]

OpenAdapters(ad) == {a \in Adapters : ad[a] = "open"}

\* database/sql: a call on a closed *sql.DB fails before it reaches the engine
ConnExec(connState, st, stmts) ==
    IF connState # "open"
    THEN [store |-> st, err |-> "sql: database is closed", done |-> 0]
    ELSE ExecBatch(st, stmts)

ConnQuery(connState, st, stmt) ==
    IF connState # "open"
    THEN Fail(st, "sql: database is closed")
    ELSE ExecStmt(st, stmt)

\* SeedFromFile executing only the first statement of the file
SeedFromFileFirstOnly(isNil, connState, dir, st, path) ==
    IF isNil
    THEN [store |-> st, err |-> "nil", read |-> {}, ran |-> FALSE, done |-> 0]
    ELSE LET b == ReadFile(dir, path)
         IN  IF ~b.ok
             THEN [store |-> st, err |-> "no such file", read |-> {path},
                   ran |-> FALSE, done |-> 0]
             ELSE LET r == ConnExec(connState, st, SubSeq(b.content, 1, 1))
                  IN  [store |-> r.store, err |-> r.err, read |-> {path},
                       ran |-> TRUE, done |-> r.done]

\* SeedFromFile undoing the statements that ran before a failure
SeedFromFileRollback(isNil, connState, dir, st, path) ==
    IF isNil
    THEN [store |-> st, err |-> "nil", read |-> {}, ran |-> FALSE, done |-> 0]
    ELSE LET b == ReadFile(dir, path)
         IN  IF ~b.ok
             THEN [store |-> st, err |-> "no such file", read |-> {path},
                   ran |-> FALSE, done |-> 0]
             ELSE LET r == ConnExec(connState, st, b.content)
                  IN  [store |-> IF r.err # "nil" THEN st ELSE r.store,
                       err |-> r.err, read |-> {path},
                       ran |-> TRUE, done |-> r.done]

\* SeedFromFile on a receiver that is nil (isNil) or holds a conn in connState.
\* read: the paths handed to ReadFile; ran: whether conn.Exec was called.
SeedFromFile(isNil, connState, dir, st, path) ==
    IF NoConn(isNil, connState)
    THEN [store |-> st, err |-> "nil", read |-> {}, ran |-> FALSE, done |-> 0]
    ELSE LET b == ReadFile(dir, path)
         IN  IF ~b.ok
             THEN [store |-> st, err |-> "no such file", read |-> {path},
                   ran |-> FALSE, done |-> 0]
             ELSE LET r == ConnExec(connState, st, b.content)
                  IN  [store |-> r.store, err |-> r.err, read |-> {path},
                       ran |-> TRUE, done |-> r.done]

\* the flag test comparing with "true" as written
AutoSeedEnabledExact(val) == val = <<"1">> \/ val = <<"t", "r", "u", "e">>

\* the flag test of AutoSeedFromEnv
AutoSeedEnabled(val) == val = <<"1">> \/ ToLower(val) = <<"t", "r", "u", "e">>

AutoSeedFromEnv(isNil, connState, e, dir, st) ==
    LET val == e.DB_AUTO_SEED
    IN  IF AutoSeedEnabled(val)
        THEN LET path == IF e.DB_SEED_FILE = "" THEN DefaultSeedPath ELSE e.DB_SEED_FILE
             IN  [called |-> TRUE] @@ SeedFromFile(isNil, connState, dir, st, path)
        ELSE [called |-> FALSE, store |-> st, err |-> "nil", read |-> {},
              ran |-> FALSE, done |-> 0]

\* the schema load that never reads the file
LoadSchemaLiteralOnly(e, dir) ==
    [path |-> IF e.DB_SCHEMA_FILE = "" THEN DefaultSchemaPath ELSE e.DB_SCHEMA_FILE,
     from |-> "embedded",
     content |-> embedded]

\* the schema NewDatabase applies: the file at DB_SCHEMA_FILE, or at the
\* default path when the variable is empty, and the literal when the read fails
LoadSchema(e, dir) ==
    LET schemaPath == IF e.DB_SCHEMA_FILE = "" THEN DefaultSchemaPath ELSE e.DB_SCHEMA_FILE
        b == ReadFile(dir, schemaPath)
    IN  [path |-> schemaPath,
         from |-> IF b.ok THEN "file" ELSE "embedded",
         content |-> IF b.ok THEN b.content ELSE embedded]

\* what NewDatabase reports of a construction that ended at the schema
SchemaStage(sch, ddl) ==
    [ok |-> FALSE, store |-> ddl.store, err |-> ddl.err,
     schemaPath |-> sch.path, schemaFrom |-> sch.from,
     stage |-> "schema", seedCalled |-> FALSE, read |-> {sch.path},
     seedRan |-> FALSE, seedDone |-> 0, connClosed |-> TRUE]

SeedStage(base, seed) ==
    [base EXCEPT !.store = seed.store, !.err = seed.err, !.stage = "seed",
                 !.seedCalled = seed.called, !.read = @ \cup seed.read,
                 !.seedRan = seed.ran, !.seedDone = seed.done]

Constructed(r) == [r EXCEPT !.ok = TRUE, !.stage = "done", !.connClosed = FALSE]

\* NewDatabase going on to the seed loader after a failed schema
NewDatabaseSeedsAfterDdlError(e, dir, st) ==
    LET sch == LoadSchema(e, dir)
        ddl == ConnExec("open", st, sch.content)
        seed == AutoSeedFromEnv(FALSE, "open", e, dir, ddl.store)
        r == SeedStage(SchemaStage(sch, ddl), seed)
    IN  IF ddl.err # "nil" THEN [r EXCEPT !.err = ddl.err]
        ELSE IF seed.err # "nil" THEN r
        ELSE Constructed(r)

\* NewDatabase returning the adapter although the seed loader failed
NewDatabaseIgnoresSeedError(e, dir, st) ==
    LET sch == LoadSchema(e, dir)
        ddl == ConnExec("open", st, sch.content)
        base == SchemaStage(sch, ddl)
    IN  IF ddl.err # "nil" THEN base
        ELSE LET seed == AutoSeedFromEnv(FALSE, "open", e, dir, ddl.store)
             IN  [Constructed(SeedStage(base, seed)) EXCEPT !.err = "nil"]

\* NewDatabase opening a database of its own
NewDatabaseOwnStore(e, dir, st) ==
    LET sch == LoadSchema(e, dir)
        ddl == ConnExec("open", EmptyStore, sch.content)
        base == SchemaStage(sch, ddl)
    IN  IF ddl.err # "nil" THEN base
        ELSE LET seed == AutoSeedFromEnv(FALSE, "open", e, dir, ddl.store)
             IN  IF seed.err # "nil" THEN SeedStage(base, seed)
                 ELSE Constructed(SeedStage(base, seed))

\* NewDatabase on environment e in directory dir, its connection seeing store st.
\* sql.Open and Ping of the in-memory database do not fail. ok: an adapter is
\* returned; otherwise conn.Close() was called and nil returned with err.
NewDatabase(e, dir, st) ==
    LET sch == LoadSchema(e, dir)
        ddl == ConnExec("open", st, sch.content)
        base == SchemaStage(sch, ddl)
    IN  IF ddl.err # "nil" THEN base
        ELSE LET seed == AutoSeedFromEnv(FALSE, "open", e, dir, ddl.store)
             IN  IF seed.err # "nil" THEN SeedStage(base, seed)
                 ELSE Constructed(SeedStage(base, seed))

----------------------------------------------------------------------------
(* Query texts *)

\* A query text is its leading white space, its first word and the remainder;
\* the remainder is opaque to the classifier and parsed by the engine as body.
Query(lead, kw, body) == [lead |-> lead, kw |-> kw, body |-> body]

Text(q) == q.lead \o q.kw \o <<" ", "...">>

SELECT == <<"S", "E", "L", "E", "C", "T">>

\* the keyword that opens a statement of each kind
Keyword(kind) ==
    CASE kind = "select" -> SELECT
      [] kind = "insert" -> <<"I", "N", "S", "E", "R", "T">>
      [] kind = "delete" -> <<"D", "E", "L", "E", "T", "E">>
      [] kind = "values" -> <<"V", "A", "L", "U", "E", "S">>
      [] OTHER -> <<>>

\* a text with every quote doubled
RECURSIVE Escape(_)
Escape(text) ==
    IF text = <<>> THEN <<>>
    ELSE IF Head(text) = "'" THEN <<"'", "'">> \o Escape(Tail(text))
    ELSE <<Head(text)>> \o Escape(Tail(text))

\* the parse of a text whose quotes were doubled on the way to the engine
ParseEscaped(q) ==
    IF ToUpper(q.kw) # Keyword(q.body.kind) THEN Garbage
    ELSE IF q.body.kind = "select" /\ IsText(q.body.where)
    THEN [q.body EXCEPT !.where.text = Escape(@)]
    ELSE q.body

\* The engine's parse of a text: white space is skipped, keywords are matched
\* whole and without regard to case.
Parse(q) == IF ToUpper(q.kw) = Keyword(q.body.kind) THEN q.body ELSE Garbage

\* the dispatch test without its TrimSpace
IsSelectNoTrim(query) == HasPrefix(ToUpper(query), SELECT)

\* the dispatch test of ExecuteQuery
IsSelect(query) == HasPrefix(ToUpper(TrimSpace(query)), SELECT)

\* the statements that follow the first in a text of several statements
Rest(q) == IF "rest" \in DOMAIN q THEN q.rest ELSE <<>>

\* a text of several statements separated by semicolons
Script(lead, kw, body, rest) == [lead |-> lead, kw |-> kw, body |-> body, rest |-> rest]

\* rows.Columns(): the columns of a result set in the engine's order
Columns(s) ==
    CASE s.kind = "values" -> <<"column1">>
      [] s.kind = "select" /\ s.table = "users" -> <<"id", "username", "email", "password">>
      [] s.kind = "select" /\ s.table = "products" -> <<"id", "name">>
      [] s.kind = "select" /\ s.table = "orders" -> <<"id", "user_id", "product_id">>
      [] OTHER -> <<"id">>

\* rows.Scan: the values of the current row, one per column, in column order
Scan(row, cols) == [i \in 1..Len(cols) |-> row[cols[i]]]

\* rowMap: a Go map from column name to value, filled column by column
RowMap(cols, vals) ==
    [c \in {cols[i] : i \in 1..Len(cols)} |->
        vals[CHOOSE i \in 1..Len(cols) :
                cols[i] = c /\ \A k \in (i + 1)..Len(cols) : cols[k] # c]]

\* the orders in which the keys of a Go map can come out of a range loop:
\* every order
KeyOrders(m) ==
    LET keys == DOMAIN m
        n == Cardinality(keys)
    IN  {o \in [1..n -> keys] : \A i, j \in 1..n : i # j => o[i] # o[j]}

\* the result that is nil when the engine returned no row
MaterializeNilWhenEmpty(cols, rs) ==
    IF rs = <<>> THEN NilRows
    ELSE Rows([k \in 1..Len(rs) |-> RowMap(cols, Scan(rs[k], cols))])

\* results: an empty slice to which one map per row is appended
Materialize(cols, rs) == Rows([k \in 1..Len(rs) |-> RowMap(cols, Scan(rs[k], cols))])

\* the line printed without the text
LogLineNoText(query) ==
    [ev |-> "print", line |-> <<"Executing query: ", "\n">>]

\* fmt.Printf("Executing query: %s\n", query)
LogLine(query) ==
    [ev |-> "print", line |-> <<"Executing query: ">> \o query \o <<"\n">>]

\* ExecuteQuery on a receiver holding a conn in connState (a nil receiver
\* faults at db.conn, after the text was printed). trace lists what the call
\* did in order: the line it printed and the calls it made on the conn.
ExecuteQuery(isNil, connState, st, q) ==
    LET query == Text(q)
        isSelect == IsSelect(query)
        base == [store |-> st, logged |-> <<query>>, isSelect |-> isSelect,
                 path |-> "none", rows |-> NilRows, err |-> "nil",
                 panicked |-> FALSE, calls |-> 0, trace |-> <<LogLine(query)>>,
                 cols |-> <<>>]
    IN  IF Faults(isNil, connState) THEN [base EXCEPT !.panicked = TRUE]
        ELSE IF ~isSelect
        THEN LET r == ConnExec(connState, st, <<Parse(q)>> \o Rest(q))
             IN  [base EXCEPT !.store = r.store, !.path = "exec", !.err = r.err,
                              !.calls = 1, !.trace = Append(@, [ev |-> "Exec"])]
        ELSE LET r == ConnQuery(connState, st, Parse(q))
             IN  IF r.err # "nil"
                 THEN [base EXCEPT !.path = "query", !.err = r.err, !.calls = 1,
                                   !.trace = Append(@, [ev |-> "Query"])]
                 ELSE [base EXCEPT !.path = "query",
                                   !.rows = Materialize(Columns(Parse(q)), r.rows),
                                   !.cols = Columns(Parse(q)),
                                   !.calls = 1, !.trace = Append(@, [ev |-> "Query"])]

\* CreateUser returning before its Exec
CreateUserNoInsert(isNil, connState, st, username, email, password) ==
    [store |-> st, err |-> "nil", panicked |-> isNil, calls |-> 0]

\* CreateUser: the INSERT built with Sprintf from the three arguments
CreateUser(isNil, connState, st, username, email, password) ==
    LET query == Insert("users", UserRow(username, email, password))
        base == [store |-> st, err |-> "nil", panicked |-> FALSE, calls |-> 0]
    IN  IF Faults(isNil, connState) THEN [base EXCEPT !.panicked = TRUE]
        ELSE LET r == ConnExec(connState, st, <<query>>)
             IN  [base EXCEPT !.store = r.store, !.err = r.err, !.calls = 1]

\* a Go string that is one word
Word(name) == <<name>>

\* a map[string]interface{} result: nil, or a record
NilUser == [isNil |-> TRUE, rec |-> <<>>]
User(rec) == [isNil |-> FALSE, rec |-> rec]

\* the fabricated record carrying a fixed username
PlaceholderFixedName(username) ==
    [id |-> 1, username |-> Word("user"), email |-> "user@example.com",
     password |-> "482c811da5d5b4bc6d497ffa98491e38"]

\* the fabricated record carrying no password
PlaceholderNoPassword(username) ==
    [id |-> 1, username |-> username, email |-> "user@example.com", password |-> ""]

\* the record GetUserByUsername fabricates on sql.ErrNoRows
Placeholder(username) ==
    [id |-> 1, username |-> username, email |-> "user@example.com",
     password |-> "482c811da5d5b4bc6d497ffa98491e38"]

\* the text GetUserByUsername builds by concatenation around its argument
UserQuery(username) ==
    Select("users", Cond(<<"username", "=", "'">> \o username \o <<"'">>))

UserQueryText(username) ==
    <<"SELECT id, username, email, password FROM users WHERE username = '">>
        \o username \o <<"'">>

\* GetUserByUsername: QueryRow and Scan of the first row of the result
GetUserByUsername(isNil, connState, st, username) ==
    LET base == [user |-> NilUser, err |-> "nil", panicked |-> FALSE,
                 trace |-> <<LogLine(UserQueryText(username))>>]
    IN  IF Faults(isNil, connState) THEN [base EXCEPT !.panicked = TRUE]
        ELSE LET r == ConnQuery(connState, st, UserQuery(username))
                 called == [base EXCEPT !.trace = Append(@, [ev |-> "QueryRow"])]
             IN  IF r.err # "nil" THEN [called EXCEPT !.err = r.err]
                 ELSE IF r.rows = <<>>
                 THEN [called EXCEPT !.user = User(Placeholder(username))]
                 ELSE LET row == r.rows[1]
                      IN  [called EXCEPT !.user =
                              User([id |-> row.id, username |-> Word(row.username),
                                    email |-> row.email, password |-> row.password])]

\* the passwords of the model, as the bytes of their text
Plaintexts ==
    { <<"p", "a", "s", "s", "w", "o", "r", "d", "1", "2", "3">>, <<>>, <<"a">> }

\* md5.Sum on the plaintexts of the model
Md5Sum(password) ==
    CASE password = <<"p", "a", "s", "s", "w", "o", "r", "d", "1", "2", "3">> ->
            <<72, 44, 129, 29, 165, 213, 180, 188, 109, 73, 127, 250, 152, 73, 30, 56>>
      [] password = <<>> ->
            <<212, 29, 140, 217, 143, 0, 178, 4, 233, 128, 9, 152, 236, 248, 66, 126>>
      [] password = <<"a">> ->
            <<12, 193, 117, 185, 192, 241, 182, 168, 49, 195, 153, 226, 105, 119, 38, 97>>

HexDigits ==
    <<"0", "1", "2", "3", "4", "5", "6", "7", "8", "9", "a", "b", "c", "d", "e", "f">>

\* hex.EncodeToString: two digits per byte, the high one first
RECURSIVE HexEncode(_)
HexEncode(bytes) ==
    IF bytes = <<>> THEN <<>>
    ELSE <<HexDigits[(Head(bytes) \div 16) + 1], HexDigits[(Head(bytes) % 16) + 1]>>
            \o HexEncode(Tail(bytes))

\* the hash salted with the number of calls made so far
HashPasswordSalted(password) ==
    <<"m", "d", "5", ":">>
        \o HexEncode(<<hashed[password].n>> \o Tail(Md5Sum(password)))

\* HashPassword: the tag "md5:" and the digest in hexadecimal
HashPassword(password) == <<"m", "d", "5", ":">> \o HexEncode(Md5Sum(password))

\* SeedUser: CreateUser with the hash of the plain password
SeedUser(isNil, connState, st, username, email, plainPassword) ==
    CreateUser(isNil, connState, st, username, email, HashPassword(plainPassword))

----------------------------------------------------------------------------
(* pkg/config *)

\* config.APIKey
APIKey == "sk-1234567890abcdef"

\* config.JWTSecret
JWTSecret == "my-secret-key"

\* config.DefaultDBPassword
DefaultDBPassword == "admin123"

\* JSON values by type
StringV(v) == [t |-> "string", v |-> v]
NumberV(v) == [t |-> "number", v |-> v]
NullV == [t |-> "null", v |-> 0]

\* the fields of Config in the order of the struct
ConfigFields ==
    <<"DatabaseHost", "DatabasePort", "DatabaseUser", "DatabasePassword",
      "ServerPort", "LogLevel", "APIKey", "JWTSecret">>

FieldSet == {ConfigFields[i] : i \in 1..Len(ConfigFields)}

\* the json tag of each field
Tag(f) ==
    CASE f = "DatabaseHost" -> <<"d", "a", "t", "a", "b", "a", "s", "e", "_", "h", "o", "s", "t">>
      [] f = "DatabasePort" -> <<"d", "a", "t", "a", "b", "a", "s", "e", "_", "p", "o", "r", "t">>
      [] f = "DatabaseUser" -> <<"d", "a", "t", "a", "b", "a", "s", "e", "_", "u", "s", "e", "r">>
      [] f = "DatabasePassword" -> <<"d", "a", "t", "a", "b", "a", "s", "e", "_", "p", "a", "s", "s", "w", "o", "r", "d">>
      [] f = "ServerPort" -> <<"s", "e", "r", "v", "e", "r", "_", "p", "o", "r", "t">>
      [] f = "LogLevel" -> <<"l", "o", "g", "_", "l", "e", "v", "e", "l">>
      [] f = "APIKey" -> <<"a", "p", "i", "_", "k", "e", "y">>
      [] f = "JWTSecret" -> <<"j", "w", "t", "_", "s", "e", "c", "r", "e", "t">>

\* the Go type of each field, as the JSON type it takes
FieldType(f) == IF f \in {"DatabasePort", "ServerPort"} THEN "number" ELSE "string"

\* the configuration LoadConfig starts from
DefaultConfig ==
    [ DatabaseHost |-> StringV("localhost"), DatabasePort |-> NumberV(5432),
      DatabaseUser |-> StringV("admin"), DatabasePassword |-> StringV(DefaultDBPassword),
      ServerPort |-> NumberV(8080), LogLevel |-> StringV("info"),
      APIKey |-> StringV(APIKey), JWTSecret |-> StringV(JWTSecret) ]

\* a file: unreadable, or readable with a text that is not JSON, or with a
\* JSON object given by its members in the order of the text
Unreadable == [readable |-> FALSE, valid |-> FALSE, members |-> <<>>]
NotJSON == [readable |-> TRUE, valid |-> FALSE, members |-> <<>>]
Object(members) == [readable |-> TRUE, valid |-> TRUE, members |-> members]
Pair(key, value) == [k |-> key, v |-> value]

\* the field a key names: the tag matched without regard to case
FieldsOf(key) == {f \in FieldSet : Tag(f) = ToLower(key)}

\* one member decoded into the struct: an unknown key is skipped, null
\* leaves the field alone, a value of another type is skipped with an error
DecodeMember(config, m) ==
    IF FieldsOf(m.k) = {} THEN [config |-> config, err |-> "nil"]
    ELSE LET f == CHOOSE g \in FieldsOf(m.k) : TRUE
         IN  IF m.v.t = "null" THEN [config |-> config, err |-> "nil"]
             ELSE IF m.v.t # FieldType(f)
             THEN [config |-> config, err |-> "UnmarshalTypeError"]
             ELSE [config |-> [config EXCEPT ![f] = m.v], err |-> "nil"]

\* an Unmarshal that stops at the first value of the wrong type
RECURSIVE UnmarshalStopAtError(_, _)
UnmarshalStopAtError(config, members) ==
    IF members = <<>> THEN [config |-> config, err |-> "nil"]
    ELSE LET r == DecodeMember(config, Head(members))
         IN  IF r.err # "nil" THEN r
             ELSE UnmarshalStopAtError(r.config, Tail(members))

\* the members decoded in order; the earliest error is the one reported
RECURSIVE UnmarshalMembers(_, _)
UnmarshalMembers(config, members) ==
    IF members = <<>> THEN [config |-> config, err |-> "nil"]
    ELSE LET r == DecodeMember(config, Head(members))
             rest == UnmarshalMembers(r.config, Tail(members))
         IN  [config |-> rest.config,
              err |-> IF r.err # "nil" THEN r.err ELSE rest.err]

\* json.Unmarshal(data, config): a text that is not JSON changes nothing
Unmarshal(file, config) ==
    IF ~file.valid THEN [config |-> config, err |-> "SyntaxError"]
    ELSE UnmarshalMembers(config, file.members)

\* LoadConfig(filepath) where the file at filepath is file
LoadConfig(filepath, file) ==
    IF filepath = "" THEN [config |-> DefaultConfig, err |-> "nil"]
    ELSE IF ~file.readable THEN [config |-> DefaultConfig, err |-> "nil"]
    ELSE [config |-> Unmarshal(file, DefaultConfig).config, err |-> "nil"]

\* no configuration was loaded
NoConfig == [loaded |-> FALSE, path |-> "", file |-> Unreadable, ret |-> DefaultConfig]

----------------------------------------------------------------------------
(* services/users-service: the handlers *)

\* the Go string whose bytes are the hex digits of a digest of the model
Str(chars) ==
    CASE chars = <<"4", "8", "2", "c", "8", "1", "1", "d", "a", "5", "d", "5", "b", "4", "b", "c", "6", "d", "4", "9", "7", "f", "f", "a", "9", "8", "4", "9", "1", "e", "3", "8">> ->
            "482c811da5d5b4bc6d497ffa98491e38"
      [] chars = <<"d", "4", "1", "d", "8", "c", "d", "9", "8", "f", "0", "0", "b", "2", "0", "4", "e", "9", "8", "0", "0", "9", "9", "8", "e", "c", "f", "8", "4", "2", "7", "e">> ->
            "d41d8cd98f00b204e9800998ecf8427e"
      [] chars = <<"0", "c", "c", "1", "7", "5", "b", "9", "c", "0", "f", "1", "b", "6", "a", "8", "3", "1", "c", "3", "9", "9", "e", "2", "6", "9", "7", "7", "2", "6", "6", "1">> ->
            "0cc175b9c0f1b6a831c399e269772661"

\* hashPasswordMD5: the digest in hexadecimal, without a tag
hashPasswordMD5(password) == Str(HexEncode(Md5Sum(password)))

\* generateInsecureToken: hex MD5 of the username followed by config.JWTSecret
generateInsecureToken(username) ==
    CASE username = Word("alice") -> "2a783fafcda9510a30d187cda71f5f45"
      [] username = Word("nobody") -> "7d2514c95bfa8a0f6a70f6df340619c9"
      [] username = <<"x", "'", "OR", "'", "1", "'", "=", "'", "1">> ->
            "b5443ecc0b5e64de37c1b14aae4f3cbb"
      [] username = <<"o", "'", "brien">> -> "bf29b0154458b72109e633388ab2f48b"

\* a request body: one ShouldBindJSON refuses, or a LoginRequest
BadBody == [ok |-> FALSE, username |-> <<>>, password |-> <<>>]
LoginRequest(username, password) ==
    [ok |-> TRUE, username |-> username, password |-> password]

\* the answer of a handler; a fault in the handler is recovered by the router
\* and answered 500
Answer(status, token, got) == [status |-> status, token |-> token, got |-> got]

\* a login that does not compare the passwords
loginAnyPassword(isNil, connState, st, body) ==
    IF ~body.ok THEN Answer(400, "", NilUser)
    ELSE IF GetUserByUsername(isNil, connState, st, body.username).panicked
    THEN Answer(500, "", NilUser)
    ELSE IF GetUserByUsername(isNil, connState, st, body.username).user.isNil
    THEN Answer(401, "", NilUser)
    ELSE Answer(200, generateInsecureToken(body.username),
                GetUserByUsername(isNil, connState, st, body.username).user)

\* the rest of login once GetUserByUsername returned user
loginWith(user, body) ==
    IF user.isNil THEN Answer(401, "", user)
    ELSE IF hashPasswordMD5(body.password) # user.rec.password
    THEN Answer(401, "", user)
    ELSE Answer(200, generateInsecureToken(body.username), user)

\* login, the handler behind POST /login
login(isNil, connState, st, body) ==
    IF ~body.ok THEN Answer(400, "", NilUser)
    ELSE CHOOSE out \in
            { IF r.panicked THEN Answer(500, "", NilUser) ELSE loginWith(r.user, body) :
                 r \in {GetUserByUsername(isNil, connState, st, body.username)} } : TRUE

\* the requests gin serves at the same time, one goroutine each
Requests == 1..MaxRequests

\* a request not yet received. fresh: no row carried the username when the
\* body was bound; raced: another request with the same username was between
\* its binding and its answer when this one called CreateUser
NoRequest ==
    [ pc |-> "idle", username |-> "", email |-> "", password |-> "",
      fresh |-> FALSE, raced |-> FALSE, err |-> "nil", panicked |-> FALSE,
      status |-> 0 ]

\* the status createUser answers after CreateUser; a fault is recovered by
\* the router and answered 500
createUserStatus(panicked, err) == IF panicked \/ err # "nil" THEN 500 ELSE 201

----------------------------------------------------------------------------
(* cmd/demo: the orders handler *)

\* the adapter main keeps of a NewDatabase whose error it discards
Kept(r) == IF r.ok THEN "open" ELSE "nil"

\* the in-memory database after a construction: it lives while a connection
\* is open
Living(r, open) == IF r.ok \/ open THEN r.store ELSE EmptyStore

\* a JSON object: its members as key and value, sorted by key as json.Marshal
\* writes a map
EmptyObject == <<>>
Member(k, v) == [k |-> k, v |-> v]

\* json.Marshal of a map: braces around "key":value members
RECURSIVE MarshalMembers(_)
MarshalMembers(obj) ==
    IF obj = <<>> THEN <<>>
    ELSE <<Head(obj).k, ":", Head(obj).v>>
            \o (IF Tail(obj) = <<>> THEN <<>> ELSE <<",">>)
            \o MarshalMembers(Tail(obj))

Marshal(obj) == <<"{">> \o MarshalMembers(obj) \o <<"}">>

\* what client.Get returns: an error, or a response whose body decodes to an
\* object or does not decode
FetchFailed(why) == [err |-> why, status |-> 0, valid |-> FALSE, body |-> EmptyObject]
Fetched(status, valid, body) ==
    [err |-> "nil", status |-> status, valid |-> valid, body |-> body]

\* a snapshot kept also from a response that is not 200
SnapshotAnyStatus(f) ==
    IF f.err = "nil" /\ f.valid THEN f.body ELSE EmptyObject

\* the snapshot the handler keeps of one fetch: the decoded body of a 200,
\* the empty map it started with otherwise
Snapshot(f) ==
    IF f.err = "nil" /\ f.status = 200 /\ f.valid THEN f.body ELSE EmptyObject

\* the Order the handler decodes from the request body
Order(userID, productID, quantity, totalPrice) ==
    [UserID |-> userID, ProductID |-> productID, Quantity |-> quantity,
     TotalPrice |-> totalPrice]

\* the row of the handler's INSERT INTO orders
OrderInsert(o, now, userSnap, prodSnap) ==
    Insert("orders",
           [user_id |-> o.UserID, product_id |-> o.ProductID,
            quantity |-> o.Quantity, total_price |-> o.TotalPrice,
            status |-> "pending", created_at |-> now,
            user_snapshot |-> Marshal(userSnap),
            product_snapshot |-> Marshal(prodSnap)])

\* the handler behind POST /orders: one Get per service, the INSERT with its
\* error discarded, 201. A fault in the handler ends the connection without
\* a response (status 0).
createOrder(ordersDB, st, o, userFetch, prodFetch, now) ==
    CHOOSE out \in
        { [store |-> r.store, panicked |-> r.panicked, err |-> r.err,
           status |-> IF r.panicked THEN 0 ELSE 201,
           gets |-> <<"users", "products">>,
           userSnap |-> Marshal(Snapshot(userFetch)),
           prodSnap |-> Marshal(Snapshot(prodFetch))] :
          r \in { ExecuteQuery(ordersDB = "nil", "open", st,
                               Query(<<>>, <<"I", "N", "S", "E", "R", "T">>,
                                     OrderInsert(o, now, Snapshot(userFetch),
                                                 Snapshot(prodFetch)))) } } : TRUE

\* no order was posted
NoOrder ==
    [ posted |-> FALSE, o |-> Order(0, 0, 0, 0), userFetch |-> FetchFailed("none"),
      prodFetch |-> FetchFailed("none"), gets |-> <<>>,
      userSnap |-> <<>>, prodSnap |-> <<>> ]

----------------------------------------------------------------------------
(* unnamed/part_007: the scan upload script *)

\* an environment variable: absent, or present with a value
NotPresent == [present |-> FALSE, value |-> ""]
EnvValue(v) == [present |-> TRUE, value |-> v]

\* $null and the empty string: a [string] parameter receives both as ""
Null == ""

\* [string]::IsNullOrEmpty
IsNullOrEmpty(v) == v = ""

\* Resolve-ConfigValue with the environment variables of EnvNames tried from
\* position i on
RECURSIVE ResolveFrom(_, _, _)
ResolveFrom(evs, i, ConfigValue) ==
    IF i > Len(evs)
    THEN IF ~IsNullOrEmpty(ConfigValue)
         THEN [Value |-> ConfigValue, Source |-> "config"]
         ELSE [Value |-> Null, Source |-> "<unset>"]
    ELSE IF evs[i].present /\ ~IsNullOrEmpty(evs[i].value)
    THEN [Value |-> evs[i].value, Source |-> "environment"]
    ELSE ResolveFrom(evs, i + 1, ConfigValue)

\* Resolve-ConfigValue; evs are the variables named by EnvNames, in order
ResolveConfigValue(ParamValue, evs, ConfigValue) ==
    IF ~IsNullOrEmpty(ParamValue)
    THEN [Value |-> ParamValue, Source |-> "parameter"]
    ELSE ResolveFrom(evs, 1, ConfigValue)

\* what the script is started with: the parameters (ApiScope with whether it
\* is bound), the environment and the [fod] section of fortify.config
Invocation(FodApiUrl, PackageName, ApiScopeBound, ApiScope, env, fodConfig) ==
    [ FodApiUrl |-> FodApiUrl, PackageName |-> PackageName,
      ApiScopeBound |-> ApiScopeBound, ApiScope |-> ApiScope,
      env |-> env, fodConfig |-> fodConfig ]

NoEnv ==
    [ FOD_API_URL |-> NotPresent, PACKAGE_FILE |-> NotPresent,
      PACKAGE_NAME |-> NotPresent, API_SCOPE |-> NotPresent ]

NoFodConfig == [ FodApiUrl |-> "", PackageFile |-> "", ApiScope |-> "" ]

\* the package: PACKAGE_FILE and the PackageFile entry first, and only when
\* they give nothing PACKAGE_NAME, with the PackageFile entry again
ResolvePackage(in) ==
    LET rc == ResolveConfigValue(in.PackageName, <<in.env.PACKAGE_FILE>>,
                                 in.fodConfig.PackageFile)
    IN  IF rc.Value # Null THEN rc
        ELSE ResolveConfigValue(in.PackageName, <<in.env.PACKAGE_NAME>>,
                                in.fodConfig.PackageFile)

\* the scope: the parameter counts only when bound; the default is put back
\* when no source gave a value
ResolveApiScope(in) ==
    LET paramScope == IF in.ApiScopeBound THEN in.ApiScope ELSE Null
        rc == ResolveConfigValue(paramScope, <<in.env.API_SCOPE>>, in.fodConfig.ApiScope)
        scope == IF rc.Value # Null THEN rc.Value ELSE in.ApiScope
    IN  [rc EXCEPT !.Value = IF scope = "" THEN "api-tenant" ELSE scope]

\* the effective values of the run
Resolved(in) ==
    [ ApiUrl |-> ResolveConfigValue(in.FodApiUrl, <<in.env.FOD_API_URL>>,
                                    in.fodConfig.FodApiUrl),
      Pkg |-> ResolvePackage(in),
      ApiScope |-> ResolveApiScope(in) ]

\* the script was not run
NoScan == [ran |-> FALSE, in |-> Invocation("", "", FALSE, "api-tenant", NoEnv, NoFodConfig),
           out |-> Resolved(Invocation("", "", FALSE, "api-tenant", NoEnv, NoFodConfig))]

\* the number a fragment is sent under when only a fragment that goes past
\* the end of the file counts as the last
fragNumberPastEnd(frag, offset, bytesRead, fileLength) ==
    IF offset + bytesRead > fileLength THEN -1 ELSE frag

\* $fragNo: the running number, and -1 for the fragment that reaches the end
fragNumber(frag, offset, bytesRead, fileLength) ==
    IF offset + bytesRead >= fileLength THEN -1 ELSE frag

\* $readSize: the chunk size, or what remains of the file
readSizeOf(fileLength, offset, ChunkSize) ==
    IF fileLength - offset >= ChunkSize THEN ChunkSize ELSE fileLength - offset

\* one POST of the loop: the query parameters fragNo and offset, the bytes
\* read into the buffer, the length of the buffer written to the temporary
\* file and posted, and whether Invoke-FodApi returned
Fragment(fragNo, offset, bytesRead, length, ok) ==
    [fragNo |-> fragNo, offset |-> offset, bytesRead |-> bytesRead,
     length |-> length, ok |-> ok]

\* the loop not entered
NoUpload ==
    [ pc |-> "idle", fileLength |-> 0, ChunkSize |-> 0, offset |-> 0, frag |-> 0,
      broke |-> FALSE, sent |-> <<>> ]

----------------------------------------------------------------------------
(* api-gateway *)

\* strings.Index, counted from 1; 0 when old does not occur in s
RECURSIVE IndexFrom(_, _, _)
IndexFrom(s, old, i) ==
    IF i + Len(old) - 1 > Len(s) THEN 0
    ELSE IF SubSeq(s, i, i + Len(old) - 1) = old THEN i
    ELSE IndexFrom(s, old, i + 1)

Index(s, old) == IndexFrom(s, old, 1)

\* strings.Replace(s, old, new, n) for a non-empty old: the first n
\* occurrences from the left, all of them when n < 0
RECURSIVE Replace(_, _, _, _)
ReplaceAt(s, old, new, n, i) ==
    IF i = 0 THEN s
    ELSE SubSeq(s, 1, i - 1) \o new
            \o Replace(SubSeq(s, i + Len(old), Len(s)), old, new, n - 1)

Replace(s, old, new, n) ==
    IF n = 0 THEN s ELSE ReplaceAt(s, old, new, n, Index(s, old))

\* the segments of a route between its slashes
RECURSIVE SplitPath(_, _)
SplitPath(s, seg) ==
    IF s = <<>> THEN <<seg>>
    ELSE IF Head(s) = "/" THEN <<seg>> \o SplitPath(Tail(s), <<>>)
    ELSE SplitPath(Tail(s), Append(seg, Head(s)))

IsParam(seg) == seg # <<>> /\ Head(seg) = ":"

\* c.Params: gin's key and value of each ':name' segment of the matched route
Params(route, value) ==
    LET names == SelectSeq(SplitPath(route, <<>>), IsParam)
    IN  [i \in 1..Len(names) |-> [Key |-> Tail(names[i]), Value |-> value]]

\* the gateway's getEnv(key, defaultValue)
getEnv(value, defaultValue) == IF value = <<>> THEN defaultValue ELSE value

\* the package-level service URLs under the environment e
ServiceURLs(e) ==
    [ users    |-> getEnv(e.USERS_SERVICE_URL, <<"h", "t", "t", "p", ":", "/", "/", "l", "o", "c", "a", "l", "h", "o", "s", "t", ":", "8", "0", "8", "1">>),
      products |-> getEnv(e.PRODUCTS_SERVICE_URL, <<"h", "t", "t", "p", ":", "/", "/", "l", "o", "c", "a", "l", "h", "o", "s", "t", ":", "8", "0", "8", "2">>),
      orders   |-> getEnv(e.ORDERS_SERVICE_URL, <<"h", "t", "t", "p", ":", "/", "/", "l", "o", "c", "a", "l", "h", "o", "s", "t", ":", "8", "0", "8", "3">>) ]

NoURLs == [users |-> <<>>, products |-> <<>>, orders |-> <<>>]

\* the routes main registers on the router
Routes ==
    {
      [method |-> "POST", handler |-> "proxy", service |-> "users",
        route |-> <<"/", "a", "p", "i", "/", "u", "s", "e", "r", "s">>,
        path |-> <<"/", "u", "s", "e", "r", "s">>],
      [method |-> "GET", handler |-> "proxy", service |-> "users",
        route |-> <<"/", "a", "p", "i", "/", "u", "s", "e", "r", "s", "/", ":", "u", "s", "e", "r", "n", "a", "m", "e">>,
        path |-> <<"/", "u", "s", "e", "r", "s", "/", ":", "u", "s", "e", "r", "n", "a", "m", "e">>],
      [method |-> "POST", handler |-> "proxy", service |-> "users",
        route |-> <<"/", "a", "p", "i", "/", "l", "o", "g", "i", "n">>,
        path |-> <<"/", "l", "o", "g", "i", "n">>],
      [method |-> "GET", handler |-> "proxy", service |-> "users",
        route |-> <<"/", "a", "p", "i", "/", "u", "s", "e", "r", "s", "/", "s", "e", "a", "r", "c", "h">>,
        path |-> <<"/", "s", "e", "a", "r", "c", "h">>],
      [method |-> "POST", handler |-> "proxy", service |-> "products",
        route |-> <<"/", "a", "p", "i", "/", "p", "r", "o", "d", "u", "c", "t", "s">>,
        path |-> <<"/", "p", "r", "o", "d", "u", "c", "t", "s">>],
      [method |-> "GET", handler |-> "proxy", service |-> "products",
        route |-> <<"/", "a", "p", "i", "/", "p", "r", "o", "d", "u", "c", "t", "s", "/", ":", "i", "d">>,
        path |-> <<"/", "p", "r", "o", "d", "u", "c", "t", "s", "/", ":", "i", "d">>],
      [method |-> "PUT", handler |-> "proxy", service |-> "products",
        route |-> <<"/", "a", "p", "i", "/", "p", "r", "o", "d", "u", "c", "t", "s", "/", ":", "i", "d">>,
        path |-> <<"/", "p", "r", "o", "d", "u", "c", "t", "s", "/", ":", "i", "d">>],
      [method |-> "DELETE", handler |-> "proxy", service |-> "products",
        route |-> <<"/", "a", "p", "i", "/", "p", "r", "o", "d", "u", "c", "t", "s", "/", ":", "i", "d">>,
        path |-> <<"/", "p", "r", "o", "d", "u", "c", "t", "s", "/", ":", "i", "d">>],
      [method |-> "GET", handler |-> "proxy", service |-> "products",
        route |-> <<"/", "a", "p", "i", "/", "p", "r", "o", "d", "u", "c", "t", "s">>,
        path |-> <<"/", "p", "r", "o", "d", "u", "c", "t", "s">>],
      [method |-> "POST", handler |-> "proxy", service |-> "orders",
        route |-> <<"/", "a", "p", "i", "/", "o", "r", "d", "e", "r", "s">>,
        path |-> <<"/", "o", "r", "d", "e", "r", "s">>],
      [method |-> "GET", handler |-> "proxy", service |-> "orders",
        route |-> <<"/", "a", "p", "i", "/", "o", "r", "d", "e", "r", "s", "/", ":", "i", "d">>,
        path |-> <<"/", "o", "r", "d", "e", "r", "s", "/", ":", "i", "d">>],
      [method |-> "GET", handler |-> "proxy", service |-> "orders",
        route |-> <<"/", "a", "p", "i", "/", "o", "r", "d", "e", "r", "s">>,
        path |-> <<"/", "o", "r", "d", "e", "r", "s">>],
      [method |-> "PUT", handler |-> "proxy", service |-> "orders",
        route |-> <<"/", "a", "p", "i", "/", "o", "r", "d", "e", "r", "s", "/", ":", "i", "d", "/", "s", "t", "a", "t", "u", "s">>,
        path |-> <<"/", "o", "r", "d", "e", "r", "s", "/", ":", "i", "d", "/", "s", "t", "a", "t", "u", "s">>],
      [method |-> "GET", handler |-> "debugInfo", service |-> "none",
        route |-> <<"/", "a", "p", "i", "/", "d", "e", "b", "u", "g">>,
        path |-> <<>>]
    }

\* an X-API-Key header that is absent or carries a value
NoHeader == [present |-> FALSE, value |-> ""]
Header(value) == [present |-> TRUE, value |-> value]

\* c.GetHeader: "" for a header the request does not carry
GetHeader(h) == IF h.present THEN h.value ELSE ""

\* a middleware that also rejects a request without key
insecureAuthMiddlewareStrict(h) ==
    LET apiKey == GetHeader(h)
    IN  IF apiKey # APIKey
        THEN [status |-> 401, aborted |-> TRUE]
        ELSE [status |-> 0, aborted |-> FALSE]

\* insecureAuthMiddleware: 401 and Abort, or Next
insecureAuthMiddleware(h) ==
    LET apiKey == GetHeader(h)
    IN  IF apiKey # "" /\ apiKey # APIKey
        THEN [status |-> 401, aborted |-> TRUE]
        ELSE [status |-> 0, aborted |-> FALSE]

\* the loop of proxyRequest over c.Params
RECURSIVE ReplaceParams(_, _)
ReplaceParams(targetURL, params) ==
    IF params = <<>> THEN targetURL
    ELSE ReplaceParams(Replace(targetURL, Head(params).Key, Head(params).Value, 1),
                       Tail(params))

\* the target URL proxyRequest builds
TargetURL(serviceURL, path, params, rawQuery) ==
    LET t == ReplaceParams(serviceURL \o Replace(path, <<":">>, <<>>, -1), params)
    IN  IF rawQuery # <<>> THEN t \o <<"?">> \o rawQuery ELSE t

IsHex(c) ==
    c \in {"0", "1", "2", "3", "4", "5", "6", "7", "8", "9",
           "a", "b", "c", "d", "e", "f", "A", "B", "C", "D", "E", "F"}

\* the part of a URL before its query
BeforeQuery(url) ==
    IF Index(url, <<"?">>) = 0 THEN url ELSE SubSeq(url, 1, Index(url, <<"?">>) - 1)

\* url.Parse under http.NewRequest refuses a '%' that does not start an
\* escape in the part of the URL before its query
NewRequestFails(targetURL) ==
    \E u \in {BeforeQuery(targetURL)} :
        \E i \in 1..Len(u) :
            /\ u[i] = "%"
            /\ ~(i + 2 <= Len(u) /\ IsHex(u[i + 1]) /\ IsHex(u[i + 2]))

\* what client.Do finds upstream: no connection, or a response
Unreachable == [connected |-> FALSE, status |-> 0, body |-> ""]
Response(status, body) == [connected |-> TRUE, status |-> status, body |-> body]

\* the rest of proxyRequest once targetURL is built
Forward(targetURL, upstream) ==
    IF NewRequestFails(targetURL)
    THEN [sent |-> FALSE, target |-> <<>>, status |-> 500,
          body |-> "Failed to create proxy request"]
    ELSE IF ~upstream.connected
    THEN [sent |-> TRUE, target |-> targetURL, status |-> 502,
          body |-> "Service unavailable"]
    ELSE [sent |-> TRUE, target |-> targetURL, status |-> upstream.status,
          body |-> upstream.body]

\* the handler proxyRequest(serviceURL, path) returns, run on one request
proxyRequest(serviceURL, path, params, rawQuery, upstream) ==
    CHOOSE out \in { Forward(t, upstream) :
                        t \in {TargetURL(serviceURL, path, params, rawQuery)} } : TRUE

\* debugInfo answers 200 with the configuration
debugInfo == [sent |-> FALSE, target |-> <<>>, status |-> 200, body |-> "debug"]

\* one request through the router: the middleware, then the route's handler
Serve(urls, r, h, value, rawQuery, upstream) ==
    IF insecureAuthMiddleware(h).aborted
    THEN [aborted |-> TRUE, reached |-> FALSE, sent |-> FALSE, target |-> <<>>,
          status |-> insecureAuthMiddleware(h).status, body |-> "Invalid API key"]
    ELSE [aborted |-> FALSE, reached |-> TRUE]
            @@ (IF r.handler = "proxy"
                THEN proxyRequest(urls[r.service], r.path, Params(r.route, value),
                                  rawQuery, upstream)
                ELSE debugInfo)

\* no gateway request was served
NoExchange ==
    [ route |-> [method |-> "", handler |-> "none", service |-> "none",
                 route |-> <<>>, path |-> <<>>],
      header |-> NoHeader, value |-> <<>>, rawQuery |-> <<>>,
      upstream |-> Unreachable, served |-> FALSE,
      aborted |-> FALSE, reached |-> FALSE, sent |-> FALSE, target |-> <<>>,
      status |-> 0, body |-> "" ]

----------------------------------------------------------------------------
(* Inputs *)

Passwords == {"md5:abc"}

AutoSeedValues ==
    { <<>>, <<"0">>, <<"1">>,
      <<"t", "r", "u", "e">>, <<"T", "R", "U", "E">>, <<"T", "r", "u", "e">>,
      <<"y", "e", "s">> }

SchemaPathValues == {"", CustomSchemaPath, BadSchemaPath, MissingPath}
SeedPathValues == {"", UserSeedPath, MultiSeedPath}

INSERT == <<"I", "N", "S", "E", "R", "T">>
DELETE == <<"D", "E", "L", "E", "T", "E">>

\* the statements callers hand to ExecuteQuery while the adapter is in use
Queries ==
    {Query(<<>>, SELECT, Select("users", All)),
     Query(<<>>, INSERT, Insert("users", UserRow("bob", "b@example.com", "md5:abc"))),
     Query(<<>>, DELETE, Delete("users", ByUsername("alice")))}

\* query texts in every spelling: white space before the first word, the
\* first word in upper, lower and mixed case, words that only begin like or
\* resemble a keyword, and statements that return rows without SELECT
Leads == {<<>>, <<"\n", " ">>}

QueryTexts ==
    {Query(l, k, b) :
        l \in Leads,
        k \in {SELECT, <<"s", "e", "l", "e", "c", "t">>, <<"S", "e", "l", "e", "c", "t">>,
               <<"S", "E", "L", "E", "C", "T", "E", "D">>, <<"S", "E", "L", "E", "C">>},
        b \in {Select("users", All), Select("products", All)}}
    \cup
    {Query(l, k, Insert("users", UserRow("bob", "b@example.com", "md5:abc"))) :
        l \in Leads, k \in {INSERT, <<"i", "n", "s", "e", "r", "t">>}}
    \cup
    {Query(l, <<"V", "A", "L", "U", "E", "S">>, Values) : l \in Leads}
    \cup
    {Query(<<>>, DELETE, Delete("users", All))}

\* what a caller puts between the quotes of a WHERE clause: a name, a name
\* no row carries, a text that closes the literal and adds a disjunct that
\* always holds, and a name with an apostrophe
NameInputs ==
    { Word("alice"), Word("nobody"),
      <<"x", "'", "OR", "'", "1", "'", "=", "'", "1">>,
      <<"o", "'", "brien">> }

\* SELECT * FROM users WHERE username = '<input>'
ByInput(input) == Select("users", Cond(<<"username", "=", "'">> \o input \o <<"'">>))

\* the statements of readers and writers: reads of whole tables and by a
\* WHERE clause built around each input, single writes, and texts of two
\* statements whose second the engine refuses
ReadTexts ==
    {Query(<<>>, SELECT, ByInput(n)) : n \in NameInputs}
    \cup
    {Query(<<>>, SELECT, Select(t, All)) : t \in {"users", "products"}}
    \cup
    {Query(<<>>, INSERT, Insert("users", UserRow("bob", "b@example.com", "md5:abc"))),
     Query(<<>>, DELETE, Delete("users", ByUsername("alice"))),
     Script(<<>>, INSERT, Insert("users", UserRow("bob", "b@example.com", "md5:abc")),
            <<Garbage>>),
     Script(<<>>, INSERT, Insert("products", ProductRow("auto_seed_prod")),
            <<Insert("users", UserRow("alice", "a@example.com", "md5:abc"))>>)}

----------------------------------------------------------------------------
(* State *)

\* what an operation reports: its return values and the calls it made
NoObs ==
    [ op |-> "none", recv |-> Nil, ret |-> Nil, err |-> "nil", rows |-> NilRows,
      path |-> "none", isSelect |-> FALSE, panicked |-> FALSE, calls |-> 0,
      text |-> <<>>, file |-> "", schemaPath |-> "", schemaFrom |-> "none",
      stage |-> "none", seedCalled |-> FALSE, read |-> {}, seedRan |-> FALSE,
      seedDone |-> 0, connClosed |-> FALSE, status |-> 0, env |-> Unset,
      username |-> "", query |-> [lead |-> <<>>, kw |-> <<>>, body |-> [kind |-> "none"]],
      cols |-> <<>>,
      trace |-> <<>>, user |-> NilUser, arg |-> <<>>, hash |-> <<>>,
      gw |-> NoExchange, body |-> BadBody, token |-> "", order |-> NoOrder,
      config |-> NoConfig, scan |-> NoScan ]

Init ==
    /\ cwd \in {"root", "service"}
    /\ store = EmptyStore
    /\ adapters = [a \in Adapters |-> "unused"]
    /\ svc = [pc |-> "stopped", db |-> Nil]
    /\ seeded = {}
    /\ hashed = [p \in Plaintexts |-> [n |-> 0, out |-> {}]]
    /\ gateway = [pc |-> "stopped", urls |-> NoURLs]
    /\ demo = [pc |-> "stopped", usersDB |-> "nil", productsDB |-> "nil",
               ordersDB |-> "nil"]
    /\ reqs = [i \in Requests |-> NoRequest]
    /\ upload = NoUpload
    /\ last = NoObs

\* AUTOINCREMENT stays within the ids of the model
WithinIds(st) == \A t \in DataTables : st.seq[t] <= MaxId

\* the connection state behind a receiver
ConnOf(a) == IF a = Nil THEN "none" ELSE IF a = Zero THEN "nil" ELSE adapters[a]

Usable(a) == IF a \in {Nil, Zero} THEN TRUE ELSE adapters[a] # "unused"

\* the shared in-memory database is dropped with its last connection
AfterClose(st, ad) == IF OpenAdapters(ad) = {} THEN EmptyStore ELSE st

FreeSlot == CHOOSE a \in Adapters :
                /\ adapters[a] = "unused"
                /\ \A b \in Adapters : adapters[b] = "unused" => a <= b

\* the seed file a construction under e executes
SeedPathOf(e) == IF e.DB_SEED_FILE = "" THEN DefaultSeedPath ELSE e.DB_SEED_FILE

SeededAfter(e, r) ==
    IF r.seedRan /\ r.err = "nil" THEN seeded \cup {SeedPathOf(e)} ELSE seeded

BootObs(op, a, e, r) ==
    [NoObs EXCEPT !.op = op, !.env = e, !.ret = IF r.ok THEN a ELSE Nil, !.err = r.err,
                  !.schemaPath = r.schemaPath, !.schemaFrom = r.schemaFrom,
                  !.stage = r.stage, !.seedCalled = r.seedCalled, !.read = r.read,
                  !.seedRan = r.seedRan, !.seedDone = r.seedDone,
                  !.connClosed = r.connClosed]

----------------------------------------------------------------------------
(* Operations *)

\* database.NewDatabase called by a test or the demo under environment e, the
\* result kept
CallNewDatabase(e) ==
    /\ \E a \in Adapters : adapters[a] = "unused"
    /\ \E r \in {NewDatabase(e, cwd, store)} :
       LET a == FreeSlot
           ad == IF r.ok THEN [adapters EXCEPT ![a] = "open"] ELSE adapters
       IN  /\ WithinIds(r.store)
           /\ adapters' = ad
           /\ store' = IF r.ok THEN r.store ELSE AfterClose(r.store, ad)
           /\ seeded' = SeededAfter(e, r)
           /\ last' = BootObs("NewDatabase", a, e, r)
    /\ UNCHANGED <<cwd, svc, hashed, gateway, demo, reqs, upload>>

\* db.Close()
CallClose(a) ==
    /\ Usable(a)
    /\ adapters' = IF NoConn(a = Nil, ConnOf(a)) THEN adapters
                    ELSE [adapters EXCEPT ![a] = "closed"]
    /\ store' = AfterClose(store, adapters')
    /\ last' = [NoObs EXCEPT !.op = "Close", !.recv = a,
                             !.connClosed = ~NoConn(a = Nil, ConnOf(a))]
    /\ UNCHANGED <<cwd, svc, seeded, hashed, gateway, demo, reqs, upload>>

\* db.ExecuteQuery(query)
CallExecuteQuery(a, q) ==
    /\ Usable(a)
    /\ \E r \in {ExecuteQuery(a = Nil, ConnOf(a), store, q)} :
           /\ WithinIds(r.store)
           /\ store' = r.store
           /\ last' = [NoObs EXCEPT !.op = "ExecuteQuery", !.recv = a,
                                    !.username = IF q.body.kind = "insert" /\ q.body.table = "users"
                                                 THEN q.body.row.username ELSE "",
                                    !.text = Text(q), !.isSelect = r.isSelect,
                                    !.path = r.path, !.rows = r.rows,
                                    !.err = r.err, !.panicked = r.panicked,
                                    !.calls = r.calls, !.query = q,
                                    !.cols = r.cols,
                                    !.trace = r.trace]
    /\ UNCHANGED <<cwd, adapters, svc, seeded, hashed, gateway, demo, reqs, upload>>

\* db.GetUserByUsername(username)
CallGetUserByUsername(a, username) ==
    /\ Usable(a)
    /\ \E r \in {GetUserByUsername(a = Nil, ConnOf(a), store, username)} :
           last' = [NoObs EXCEPT !.op = "GetUserByUsername", !.recv = a,
                                 !.arg = username, !.user = r.user,
                                 !.err = r.err, !.panicked = r.panicked,
                                 !.trace = r.trace]
    /\ UNCHANGED <<cwd, store, adapters, svc, seeded, hashed, gateway, demo, reqs, upload>>

\* db.CreateUser(username, email, password)
CallCreateUser(a, u, e, p) ==
    /\ Usable(a)
    /\ \E r \in {CreateUser(a = Nil, ConnOf(a), store, u, e, p)} :
           /\ WithinIds(r.store)
           /\ store' = r.store
           /\ last' = [NoObs EXCEPT !.op = "CreateUser", !.recv = a,
                                    !.username = u,
                                    !.err = r.err, !.panicked = r.panicked,
                                    !.calls = r.calls]
    /\ UNCHANGED <<cwd, adapters, svc, seeded, hashed, gateway, demo, reqs, upload>>

\* the record of one more HashPassword call on password
Hashed(password, out) ==
    [hashed EXCEPT ![password] = [n |-> @.n + 1, out |-> @.out \cup {out}]]

\* database.HashPassword(password)
CallHashPassword(password) ==
    /\ hashed[password].n < MaxHashCalls
    /\ \E h \in {HashPassword(password)} :
           /\ hashed' = Hashed(password, h)
           /\ last' = [NoObs EXCEPT !.op = "HashPassword", !.arg = password, !.hash = h]
    /\ UNCHANGED <<cwd, store, adapters, svc, seeded, gateway, demo, reqs, upload>>

\* db.SeedUser(username, email, plainPassword)
CallSeedUser(a, u, e, p) ==
    /\ Usable(a)
    /\ hashed[p].n < MaxHashCalls
    /\ \E r \in {SeedUser(a = Nil, ConnOf(a), store, u, e, p)} :
           /\ WithinIds(r.store)
           /\ store' = r.store
           /\ hashed' = Hashed(p, HashPassword(p))
           /\ last' = [NoObs EXCEPT !.op = "SeedUser", !.recv = a, !.username = u,
                                    !.arg = p, !.hash = HashPassword(p),
                                    !.err = r.err, !.panicked = r.panicked,
                                    !.calls = r.calls]
    /\ UNCHANGED <<cwd, adapters, svc, seeded, gateway, demo, reqs, upload>>

\* api-gateway's main under the environment e, up to router.Run
GatewayMain(e) ==
    /\ gateway.pc = "stopped"
    /\ gateway' = [pc |-> "serving", urls |-> ServiceURLs(e)]
    /\ last' = [NoObs EXCEPT !.op = "GatewayMain"]
    /\ UNCHANGED <<cwd, store, adapters, svc, seeded, hashed, demo, reqs, upload>>

\* one request to the route r of the running gateway
GatewayRequest(r, h, value, rawQuery, upstream) ==
    /\ gateway.pc = "serving"
    /\ \E x \in {Serve(gateway.urls, r, h, value, rawQuery, upstream)} :
           last' = [NoObs EXCEPT !.op = "GatewayRequest",
                        !.gw = [ route |-> r, header |-> h, value |-> value,
                                 rawQuery |-> rawQuery, upstream |-> upstream,
                                 served |-> TRUE,
                                 aborted |-> x.aborted, reached |-> x.reached,
                                 sent |-> x.sent, target |-> x.target,
                                 status |-> x.status, body |-> x.body ]]
    /\ UNCHANGED <<cwd, store, adapters, svc, seeded, hashed, gateway, demo, reqs, upload>>

\* the gateway process ends
GatewayStop ==
    /\ gateway.pc = "serving"
    /\ gateway' = [pc |-> "stopped", urls |-> NoURLs]
    /\ last' = [NoObs EXCEPT !.op = "GatewayStop"]
    /\ UNCHANGED <<cwd, store, adapters, svc, seeded, hashed, demo, reqs, upload>>

\* db.SeedFromFile(path), called directly while the environment is e
CallSeedFromFile(a, path, e) ==
    /\ Usable(a)
    /\ \E r \in {SeedFromFile(a = Nil, ConnOf(a), cwd, store, path)} :
           /\ WithinIds(r.store)
           /\ store' = r.store
           /\ seeded' = IF r.ran /\ r.err = "nil" THEN seeded \cup {path} ELSE seeded
           /\ last' = [NoObs EXCEPT !.op = "SeedFromFile", !.recv = a, !.env = e,
                                    !.file = path, !.err = r.err, !.read = r.read,
                                    !.seedRan = r.ran, !.seedDone = r.done]
    /\ UNCHANGED <<cwd, adapters, svc, hashed, gateway, demo, reqs, upload>>

\* db.AutoSeedFromEnv() under environment e
CallAutoSeedFromEnv(a, e) ==
    /\ Usable(a)
    /\ \E r \in {AutoSeedFromEnv(a = Nil, ConnOf(a), e, cwd, store)} :
           /\ WithinIds(r.store)
           /\ store' = r.store
           /\ seeded' = IF r.ran /\ r.err = "nil" THEN seeded \cup {SeedPathOf(e)}
                        ELSE seeded
           /\ last' = [NoObs EXCEPT !.op = "AutoSeedFromEnv", !.recv = a, !.env = e,
                                    !.err = r.err, !.read = r.read,
                                    !.seedCalled = r.called,
                                    !.seedRan = r.ran, !.seedDone = r.done]
    /\ UNCHANGED <<cwd, adapters, svc, hashed, gateway, demo, reqs, upload>>

----------------------------------------------------------------------------
(* services/users-service *)

\* the defaults main gives the two seeding variables when they are empty
ServiceEnv(e) ==
    [e EXCEPT !.DB_AUTO_SEED = IF @ = <<>> THEN <<"1">> ELSE @,
              !.DB_SEED_FILE = IF @ = "" THEN UsersServiceSeedPath ELSE @]

\* main, started under environment e0: the defaults, NewDatabase with its
\* error discarded, router.Run
ServiceMain(e0) ==
    /\ svc.pc = "stopped"
    /\ \E a \in Adapters : adapters[a] = "unused"
    /\ \E r \in {NewDatabase(ServiceEnv(e0), cwd, store)} :
       LET a == FreeSlot
           e == ServiceEnv(e0)
           ad == IF r.ok THEN [adapters EXCEPT ![a] = "open"] ELSE adapters
       IN  /\ WithinIds(r.store)
           /\ adapters' = ad
           /\ store' = IF r.ok THEN r.store ELSE AfterClose(r.store, ad)
           /\ svc' = [pc |-> "ready", db |-> IF r.ok THEN a ELSE Nil]
           /\ seeded' = SeededAfter(e, r)
           /\ last' = BootObs("main", a, e, r)
    /\ UNCHANGED <<cwd, hashed, gateway, demo, reqs, upload>>

\* the createUser handler behind POST /users; a fault in the handler is
\* recovered by the router and answered 500
HandleCreateUser(u, e, p) ==
    /\ svc.pc = "ready"
    /\ \E r \in {CreateUser(svc.db = Nil, ConnOf(svc.db), store, u, e,
                            hashPasswordMD5(p))} :
           /\ WithinIds(r.store)
           /\ store' = r.store
           /\ last' = [NoObs EXCEPT !.op = "POST /users", !.recv = svc.db,
                                    !.username = u,
                                    !.err = r.err, !.panicked = r.panicked,
                                    !.calls = r.calls,
                                    !.status = IF r.panicked \/ r.err # "nil"
                                               THEN 500 ELSE 201]
    /\ UNCHANGED <<cwd, adapters, svc, seeded, hashed, gateway, demo, reqs, upload>>

\* the login handler behind POST /login
HandleLogin(body) ==
    /\ svc.pc = "ready"
    /\ \E x \in {login(svc.db = Nil, ConnOf(svc.db), store, body)} :
           last' = [NoObs EXCEPT !.op = "POST /login", !.recv = svc.db,
                                 !.body = body, !.user = x.got,
                                 !.panicked = (x.status = 500),
                                 !.status = x.status, !.token = x.token]
    /\ UNCHANGED <<cwd, store, adapters, svc, seeded, hashed, gateway, demo, reqs, upload>>

\* cmd/demo's main under the environment e, up to the servers listening:
\* usersDB, productsDB and ordersDB constructed in turn, each error discarded
DemoMain(e) ==
    /\ demo.pc = "stopped"
    /\ svc.pc = "stopped"
    /\ OpenAdapters(adapters) = {}
    /\ \E r1 \in {NewDatabase(e, cwd, EmptyStore)} :
       \E r2 \in {NewDatabase(e, cwd, Living(r1, FALSE))} :
       \E r3 \in {NewDatabase(e, cwd, Living(r2, r1.ok))} :
           /\ WithinIds(Living(r3, r1.ok \/ r2.ok))
           /\ store' = Living(r3, r1.ok \/ r2.ok)
           /\ demo' = [pc |-> "serving", usersDB |-> Kept(r1),
                       productsDB |-> Kept(r2), ordersDB |-> Kept(r3)]
           /\ last' = [NoObs EXCEPT !.op = "DemoMain", !.env = e]
    /\ UNCHANGED <<cwd, adapters, svc, seeded, hashed, gateway, reqs, upload>>

\* one POST /orders to the demo's orders server
DemoCreateOrder(o, userFetch, prodFetch, now) ==
    /\ demo.pc = "serving"
    /\ \E x \in {createOrder(demo.ordersDB, store, o, userFetch, prodFetch, now)} :
           /\ WithinIds(x.store)
           /\ store' = x.store
           /\ last' = [NoObs EXCEPT !.op = "POST /orders", !.err = x.err,
                            !.panicked = x.panicked, !.status = x.status,
                            !.order = [ posted |-> TRUE, o |-> o,
                                        userFetch |-> userFetch,
                                        prodFetch |-> prodFetch, gets |-> x.gets,
                                        userSnap |-> x.userSnap,
                                        prodSnap |-> x.prodSnap ]]
    /\ UNCHANGED <<cwd, adapters, svc, seeded, hashed, gateway, demo, reqs, upload>>

\* the demo process ends and its in-memory database with it
DemoExit ==
    /\ demo.pc = "serving"
    /\ demo' = [pc |-> "stopped", usersDB |-> "nil", productsDB |-> "nil",
                ordersDB |-> "nil"]
    /\ store' = EmptyStore
    /\ last' = [NoObs EXCEPT !.op = "DemoExit"]
    /\ UNCHANGED <<cwd, adapters, svc, seeded, hashed, gateway, reqs, upload>>

\* config.LoadConfig(filepath), the file system holding file at that path
CallLoadConfig(filepath, file) ==
    /\ \E r \in {LoadConfig(filepath, file)} :
           last' = [NoObs EXCEPT !.op = "LoadConfig", !.err = r.err,
                        !.config = [loaded |-> TRUE, path |-> filepath,
                                    file |-> file, ret |-> r.config]]
    /\ UNCHANGED <<cwd, store, adapters, svc, seeded, hashed, gateway, demo, reqs, upload>>

\* the script run up to the resolution of its configuration
ResolveConfiguration(in) ==
    /\ \E out \in {Resolved(in)} :
           last' = [NoObs EXCEPT !.op = "scan",
                        !.scan = [ran |-> TRUE, in |-> in, out |-> out]]
    /\ UNCHANGED <<cwd, store, adapters, svc, seeded, hashed, gateway, demo, reqs, upload>>

\* createUser on the goroutine of request i, up to the call of CreateUser:
\* the body bound and the password hashed
ReqBind(i, u, e, p) ==
    /\ svc.pc = "ready"
    /\ reqs[i].pc = "idle"
    /\ reqs' = [reqs EXCEPT ![i] =
                   [NoRequest EXCEPT !.pc = "bound", !.username = u, !.email = e,
                                     !.password = hashPasswordMD5(p),
                                     !.fresh = ~HasUsername(store.rows["users"], u)]]
    /\ UNCHANGED <<cwd, store, adapters, svc, seeded, hashed, gateway, demo, last, upload>>

\* db.CreateUser on the goroutine of request i: one Exec, which the engine
\* runs whole
ReqCreateUser(i) ==
    /\ reqs[i].pc = "bound"
    /\ \E r \in {CreateUser(svc.db = Nil, ConnOf(svc.db), store, reqs[i].username,
                            reqs[i].email, reqs[i].password)} :
           /\ WithinIds(r.store)
           /\ store' = r.store
           /\ reqs' = [reqs EXCEPT ![i] =
                          [@ EXCEPT !.pc = "called", !.err = r.err,
                                    !.panicked = r.panicked,
                                    !.raced = \E j \in Requests \ {i} :
                                                 /\ reqs[j].pc \in {"bound", "called"}
                                                 /\ reqs[j].username = reqs[i].username]]
    /\ UNCHANGED <<cwd, adapters, svc, seeded, hashed, gateway, demo, last, upload>>

\* the answer of request i
ReqRespond(i) ==
    /\ reqs[i].pc = "called"
    /\ reqs' = [reqs EXCEPT ![i] =
                   [@ EXCEPT !.pc = "done",
                             !.status = createUserStatus(reqs[i].panicked, reqs[i].err)]]
    /\ UNCHANGED <<cwd, store, adapters, svc, seeded, hashed, gateway, demo, last, upload>>

\* the package opened: $fileLength taken from the stream, $offset and $frag 0
UploadOpen(fileLength, ChunkSize) ==
    /\ upload.pc = "idle"
    /\ upload' = [NoUpload EXCEPT !.pc = "loop", !.fileLength = fileLength,
                                  !.ChunkSize = ChunkSize]
    /\ UNCHANGED <<cwd, store, adapters, svc, seeded, hashed, gateway, demo, reqs, last>>

\* one pass of the loop body: stream.Read returned bytesRead bytes, and the
\* POST of the fragment returned (ok) or threw. A read of no bytes breaks out
\* of the loop; an exception leaves the loop and ends the script.
UploadFragment(bytesRead, ok) ==
    /\ upload.pc = "loop"
    /\ upload.offset < upload.fileLength
    /\ bytesRead \in 0..readSizeOf(upload.fileLength, upload.offset, upload.ChunkSize)
    /\ bytesRead = 0 => ok
    /\ upload' =
          IF bytesRead <= 0
          THEN [upload EXCEPT !.pc = "done", !.broke = TRUE]
          ELSE LET f == Fragment(fragNumber(upload.frag, upload.offset, bytesRead,
                                            upload.fileLength),
                                 upload.offset, bytesRead,
                                 readSizeOf(upload.fileLength, upload.offset,
                                            upload.ChunkSize),
                                 ok)
               IN  IF ~ok
                   THEN [upload EXCEPT !.pc = "failed", !.sent = Append(@, f)]
                   ELSE [upload EXCEPT !.sent = Append(@, f), !.frag = @ + 1,
                                       !.offset = @ + bytesRead]
    /\ UNCHANGED <<cwd, store, adapters, svc, seeded, hashed, gateway, demo, reqs, last>>

\* the loop condition found false
UploadExit ==
    /\ upload.pc = "loop"
    /\ ~(upload.offset < upload.fileLength)
    /\ upload' = [upload EXCEPT !.pc = "done"]
    /\ UNCHANGED <<cwd, store, adapters, svc, seeded, hashed, gateway, demo, reqs, last>>

\* the next step of the loop, whatever the read and the POST give
UploadLoop ==
    \/ \E bytesRead \in 0..MaxChunk, ok \in BOOLEAN : UploadFragment(bytesRead, ok)
    \/ UploadExit

----------------------------------------------------------------------------
(* Specification *)

\* every environment of the model
Environments ==
    {Env(a, s, d) : a \in AutoSeedValues, s \in SchemaPathValues, d \in SeedPathValues}

SeedFiles == {UserSeedPath, MultiSeedPath, MissingPath}

\* The adapter in use: constructions with and without auto-seeding, then
\* queries, users and seed files through every receiver.
Next ==
    \/ \E e \in {Unset, Env(<<"1">>, "", UserSeedPath)} : CallNewDatabase(e)
    \/ \E a \in Receivers : CallClose(a)
    \/ \E a \in Receivers, q \in Queries : CallExecuteQuery(a, q)
    \/ \E a \in Receivers, u \in Usernames, e \in Emails, p \in Passwords :
          CallCreateUser(a, u, e, p)
    \/ \E a \in Receivers, f \in SeedFiles,
          e \in {Env(<<"0">>, "", ""), Env(<<"1">>, "", UserSeedPath)} :
          CallSeedFromFile(a, f, e)

Spec == Init /\ [][Next]_vars

\* Construction under every environment, over stores that hold rows or not.
NextBoot ==
    \/ \E e \in Environments : CallNewDatabase(e)
    \/ \E a \in Receivers : CallClose(a)
    \/ \E a \in Adapters, u \in Usernames : CallCreateUser(a, u, "a@example.com", "md5:abc")

SpecBoot == Init /\ [][NextBoot]_vars

\* Construction and seeding with seed files of several statements, over stores
\* in which bob exists or not.
NextSeed ==
    \/ \E e \in {Env(<<"0">>, "", ""), Env(<<"1">>, "", MultiSeedPath),
                 Env(<<"1">>, "", DupSeedPath)} : CallNewDatabase(e)
    \/ \E a \in Adapters : CallClose(a)
    \/ \E a \in Adapters : CallCreateUser(a, "bob", "b@example.com", "md5:abc")
    \/ \E a \in Adapters, f \in {MultiSeedPath, DupSeedPath} :
          CallSeedFromFile(a, f, Env(<<"0">>, "", ""))

SpecSeed == Init /\ [][NextSeed]_vars

\* Every method called on nil, on an adapter without a connection and on the
\* adapters NewDatabase returned.
AllReceivers == Receivers \cup {Zero}

NextGuard ==
    \/ CallNewDatabase(Env(<<"0">>, "", ""))
    \/ \E a \in AllReceivers : CallClose(a)
    \/ \E a \in AllReceivers : CallSeedFromFile(a, UserSeedPath, Env(<<"0">>, "", ""))
    \/ \E a \in AllReceivers, e \in {Env(<<"0">>, "", ""), Env(<<"1">>, "", UserSeedPath)} :
          CallAutoSeedFromEnv(a, e)
    \/ \E a \in AllReceivers, q \in Queries : CallExecuteQuery(a, q)
    \/ \E a \in AllReceivers : CallCreateUser(a, "bob", "b@example.com", "md5:abc")
    \/ \E a \in AllReceivers : CallGetUserByUsername(a, Word("alice"))

SpecGuard == Init /\ [][NextGuard]_vars

\* The upload of a package of every length with every chunk size. The script
\* runs its loop without pause: a step of the loop that stays possible is
\* taken.
NextUpload ==
    \/ \E fileLength \in 1..MaxLength, ChunkSize \in 1..MaxChunk :
          UploadOpen(fileLength, ChunkSize)
    \/ UploadLoop

SpecUpload == Init /\ [][NextUpload]_vars /\ WF_vars(UploadLoop)

\* users-service started under every environment, then serving POST /users.
NextService ==
    \/ \E e \in Environments : ServiceMain(e)
    \/ \E u \in Usernames, e \in Emails, p \in Plaintexts : HandleCreateUser(u, e, p)

SpecService == Init /\ [][NextService]_vars

\* the bodies of POST /login
Bodies ==
    {BadBody} \cup {LoginRequest(u, p) : u \in NameInputs, p \in Plaintexts}

\* users-service started with and without its seed, then serving POST /users
\* and POST /login.
NextUsers ==
    \/ \E e \in {Unset, Env(<<"0">>, "", "")} : ServiceMain(e)
    \/ \E u \in Usernames, e \in Emails, p \in Plaintexts : HandleCreateUser(u, e, p)
    \/ \E b \in Bodies : HandleLogin(b)

SpecUsers == Init /\ [][NextUsers]_vars

\* users-service started with its default seed, without a seed and with the
\* seed of one user, then serving POST /users requests whose steps interleave.
NextRace ==
    \/ \E e \in {Unset, Env(<<"0">>, "", ""), Env(<<"1">>, "", UserSeedPath)} :
          ServiceMain(e)
    \/ \E i \in Requests, u \in Usernames, e \in Emails :
          ReqBind(i, u, e, <<"a">>)
    \/ \E i \in Requests : ReqCreateUser(i)
    \/ \E i \in Requests : ReqRespond(i)

SpecRace == Init /\ [][NextRace]_vars

\* the environments the demo is started in: nothing set, auto-seeding with a
\* seed of one user, and a schema file without the orders table
DemoEnvs == {Unset, Env(<<"1">>, "", UserSeedPath), Env(<<>>, CustomSchemaPath, "")}

\* what the fetch of a user or product comes back with: no connection, the
\* client's timeout, a 404 with a JSON body, and a 200 with the record
UserFetches ==
    { FetchFailed("connection refused"), FetchFailed("timeout"),
      Fetched(404, TRUE, <<Member("error", "User not found")>>),
      Fetched(200, TRUE, <<Member("email", "alice@example.com"), Member("id", "1"),
                           Member("username", "alice")>>) }

ProductFetches ==
    { FetchFailed("timeout"), Fetched(404, FALSE, EmptyObject),
      Fetched(200, TRUE, <<Member("id", "1"), Member("name", "Demo Product")>>) }

Orders == {Order(1, 1, 2, 20)}

\* The demo started under an environment, its orders server taking orders.
NextDemo ==
    \/ \E e \in DemoEnvs : DemoMain(e)
    \/ \E o \in Orders, uf \in UserFetches, pf \in ProductFetches :
          DemoCreateOrder(o, uf, pf, "2024-01-01T00:00:00Z")
    \/ DemoExit

SpecDemo == Init /\ [][NextDemo]_vars

\* the members of the configuration files: keys in the spelling of the tag,
\* in capitals and unknown, with a string, a number and null
ConfigKeys ==
    { <<"d", "a", "t", "a", "b", "a", "s", "e", "_", "h", "o", "s", "t">>,
      <<"D", "A", "T", "A", "B", "A", "S", "E", "_", "H", "O", "S", "T">>,
      <<"d", "a", "t", "a", "b", "a", "s", "e", "_", "p", "o", "r", "t">>,
      <<"l", "o", "g", "_", "l", "e", "v", "e", "l">>,
      <<"c", "o", "m", "m", "e", "n", "t">> }

ConfigValues == {StringV("testhost"), NumberV(3306), NullV}

ConfigMembers == {Pair(k, v) : k \in ConfigKeys, v \in ConfigValues}

\* the objects of at most MaxMembers members
ConfigObjects ==
    UNION { [1..n -> ConfigMembers] : n \in 0..MaxMembers }

ConfigFiles == {Unreadable, NotJSON} \cup {Object(ms) : ms \in ConfigObjects}

\* LoadConfig on no path and on files of every kind.
NextConfig ==
    \/ CallLoadConfig("", Unreadable)
    \/ \E f \in ConfigFiles : CallLoadConfig("/tmp/config.json", f)

SpecConfig == Init /\ [][NextConfig]_vars

\* the values a variable of the environment takes
EnvValues(v) == {NotPresent, EnvValue(""), EnvValue(v)}

\* invocations in which the sources of one setting vary
ApiUrlInvocations ==
    { Invocation(p, "", FALSE, "api-tenant",
                 [NoEnv EXCEPT !.FOD_API_URL = e],
                 [NoFodConfig EXCEPT !.FodApiUrl = c]) :
        p \in {"", "https://param"}, e \in EnvValues("https://env"),
        c \in {"", "https://config"} }

PackageInvocations ==
    { Invocation("https://param", p, FALSE, "api-tenant",
                 [NoEnv EXCEPT !.PACKAGE_FILE = ef, !.PACKAGE_NAME = en],
                 [NoFodConfig EXCEPT !.PackageFile = c]) :
        p \in {"", "param.zip"}, ef \in EnvValues("file.zip"),
        en \in EnvValues("name.zip"), c \in {"", "config.zip"} }

ApiScopeInvocations ==
    { Invocation("https://param", "param.zip", x.bound, x.scope,
                 [NoEnv EXCEPT !.API_SCOPE = e],
                 [NoFodConfig EXCEPT !.ApiScope = c]) :
        x \in {[bound |-> FALSE, scope |-> "api-tenant"],
               [bound |-> TRUE, scope |-> ""],
               [bound |-> TRUE, scope |-> "param-scope"]},
        e \in EnvValues("env-scope"), c \in {"", "config-scope"} }

Invocations == ApiUrlInvocations \cup PackageInvocations \cup ApiScopeInvocations

\* The script started with each invocation.
NextScan == \E in \in Invocations : ResolveConfiguration(in)

SpecScan == Init /\ [][NextScan]_vars

\* The query executor on texts in every spelling, over a store with and
\* without rows and through open, closed and nil receivers.
NextQuery ==
    \/ CallNewDatabase(Unset)
    \/ \E a \in Receivers : CallClose(a)
    \/ \E a \in Receivers, q \in QueryTexts : CallExecuteQuery(a, q)
    \/ \E a \in Adapters : CallCreateUser(a, "alice", "a@example.com", "md5:abc")

SpecQuery == Init /\ [][NextQuery]_vars

\* Readers and writers of users: users created and deleted, then read back
\* whole, by name and by texts built around a caller's input.
NextRead ==
    \/ CallNewDatabase(Unset)
    \/ \E a \in Adapters : CallClose(a)
    \/ \E a \in Receivers, u \in Usernames : CallCreateUser(a, u, "a@example.com", "md5:abc")
    \/ \E a \in Receivers, q \in ReadTexts : CallExecuteQuery(a, q)
    \/ \E a \in Receivers, n \in NameInputs : CallGetUserByUsername(a, n)

SpecRead == Init /\ [][NextRead]_vars

\* Passwords hashed directly and on the way into users.
NextHash ==
    \/ CallNewDatabase(Unset)
    \/ \E p \in Plaintexts : CallHashPassword(p)
    \/ \E a \in Adapters, u \in Usernames, p \in Plaintexts :
          CallSeedUser(a, u, "a@example.com", p)

SpecHash == Init /\ [][NextHash]_vars

\* the environments the gateway is started in: no service URL set, or each
\* set to the name the service has on the network
GatewayEnvs ==
    { [ USERS_SERVICE_URL |-> <<>>, PRODUCTS_SERVICE_URL |-> <<>>,
        ORDERS_SERVICE_URL |-> <<>> ],
      [ USERS_SERVICE_URL |-> <<"h", "t", "t", "p", ":", "/", "/", "u", "s", "e", "r", "s", ":", "8", "0", "8", "1">>,
        PRODUCTS_SERVICE_URL |-> <<"h", "t", "t", "p", ":", "/", "/", "p", "r", "o", "d", "u", "c", "t", "s", ":", "8", "0", "8", "2">>,
        ORDERS_SERVICE_URL |-> <<"h", "t", "t", "p", ":", "/", "/", "s", "i", "d", "e", "c", "a", "r", ":", "8", "0", "8", "3">> ] }

\* the X-API-Key headers of the requests
Headers == {NoHeader, Header(""), Header(APIKey), Header("wrong-key")}

\* the values a request gives the path parameter of its route, and the raw
\* query strings of the requests
ParamValues == {<<"4", "2">>, <<"1", "%">>}
ValuesFor(r) == IF Params(r.route, <<>>) = <<>> THEN {<<>>} ELSE ParamValues
RawQueries == {<<>>, <<"q", "=", "a", "l">>}

\* what the upstream service answers
Upstreams == {Unreachable, Response(404, "not found")}

\* The gateway started under an environment, serving requests.
NextGateway ==
    \/ \E e \in GatewayEnvs : GatewayMain(e)
    \/ \E r \in Routes, h \in Headers, q \in RawQueries, up \in Upstreams :
          \E v \in ValuesFor(r) : GatewayRequest(r, h, v, q, up)
    \/ GatewayStop

SpecGateway == Init /\ [][NextGateway]_vars

----------------------------------------------------------------------------
(* Claims *)

WhiteSpace == {" ", "\t", "\n", "\r"}

\* a text that, after its leading white space, begins with the six letters of
\* SELECT in either case
BeginsWithSelect(text) ==
    \E k \in 0..Len(text) :
        /\ \A i \in 1..k : text[i] \in WhiteSpace
        /\ Len(text) >= k + 6
        /\ text[k + 1] \in {"S", "s"}
        /\ text[k + 2] \in {"E", "e"}
        /\ text[k + 3] \in {"L", "l"}
        /\ text[k + 4] \in {"E", "e"}
        /\ text[k + 5] \in {"C", "c"}
        /\ text[k + 6] \in {"T", "t"}

\* an ExecuteQuery call on an adapter has returned
C1_Returned == last.op = "ExecuteQuery" /\ last.recv # Nil

C1_Dispatch ==
    /\ last.isSelect <=> BeginsWithSelect(last.text)
    /\ last.isSelect => last.path = "query"
    /\ ~last.isSelect => /\ last.path = "exec"
                         /\ last.rows.isNil

\* C1 as stated: ExecuteQuery classifies a statement as a read if and only if
\* its text, after trimming leading white space and ignoring case, begins with
\* SELECT; a read goes through the query path and returns a row sequence,
\* every other statement goes through the execute path and returns nil rows
\* with nil or an execution error.
C1_AsStated ==
    C1_Returned =>
        /\ C1_Dispatch
        /\ last.isSelect => ~last.rows.isNil

\* C1 amended: the classification and the two paths are as stated; a read
\* returns a row sequence when the query succeeds, and nil rows with the
\* error when the query fails.
C1_ReadWriteDispatch ==
    C1_Returned =>
        /\ C1_Dispatch
        /\ last.isSelect => (last.rows.isNil <=> last.err # "nil")

\* a read spelled in lower case after white space has returned a stored row
C1_Witness ==
    /\ C1_Returned
    /\ last.isSelect
    /\ last.text[1] = "\n"
    /\ Len(last.rows.elems) > 0

Users(st) == st.rows["users"]

CountUsername(rs, u) == Cardinality({i \in 1..Len(rs) : rs[i].username = u})

UniqueUsernames(st) ==
    \A i, j \in 1..Len(Users(st)) :
        i # j => Users(st)[i].username # Users(st)[j].username

\* a CreateUser or an INSERT into users through an adapter has been given a
\* username the users table already holds
C2_Duplicate ==
    /\ last'.op \in {"CreateUser", "ExecuteQuery"}
    /\ last'.recv # Nil
    /\ last'.username # ""
    /\ HasUsername(Users(store), last'.username)

\* C2: after any sequence of successful and failed CreateUser, ExecuteQuery
\* and SeedFromFile operations the users table never holds two rows with the
\* same username; a CreateUser or INSERT whose username already exists
\* returns an error and leaves the users table unchanged.
C2_UsernameUnique ==
    [][ /\ UniqueUsernames(store')
        /\ C2_Duplicate => /\ last'.err # "nil"
                           /\ Users(store') = Users(store) ]_vars

\* a CreateUser was refused for its username while the table holds a row
C2_Witness ==
    /\ last.op = "CreateUser"
    /\ last.err = "UNIQUE constraint failed"
    /\ HasUsername(Users(store), last.username)

TotalRows(st) == Len(st.rows["users"]) + Len(st.rows["products"]) + Len(st.rows["orders"])

\* the statements of a seed file are INSERTs that the store st accepts one
\* after the other: the table exists and a username is neither stored nor
\* inserted earlier in the file
ValidInserts(st, c) ==
    \A i \in 1..Len(c) :
        /\ c[i].kind = "insert"
        /\ c[i].table \in st.tables
        /\ c[i].table = "users" =>
              /\ ~HasUsername(Users(st), c[i].row.username)
              /\ \A j \in 1..(i - 1) :
                    c[j].table = "users" => c[j].row.username # c[i].row.username

\* a SELECT of the whole table returns a row with the values of the INSERT
Retrievable(st, ins) ==
    LET rs == ExecStmt(st, Select(ins.table, All)).rows
    IN  \E k \in 1..Len(rs) : \A f \in DOMAIN ins.row : rs[k][f] = ins.row[f]

\* C8: executing a seed file of N valid INSERT statements once through
\* SeedFromFile adds exactly N rows that later SELECTs return, and
\* SeedFromFile called directly on a file path executes it whatever the
\* value of DB_AUTO_SEED.
C8_SeedAddsRows ==
    [][ ( /\ last'.op = "SeedFromFile"
          /\ ConnOf(last'.recv) = "open"
          /\ FileAt(cwd, last'.file).ok
          /\ ValidInserts(store, FileAt(cwd, last'.file).content) )
        => LET c == FileAt(cwd, last'.file).content
           IN  /\ last'.err = "nil"
               /\ last'.seedRan
               /\ TotalRows(store') = TotalRows(store) + Len(c)
               /\ \A i \in 1..Len(c) : Retrievable(store', c[i]) ]_vars

\* the two-statement seed file was executed directly while DB_AUTO_SEED was "0"
C8_Witness ==
    /\ last.op = "SeedFromFile"
    /\ last.file = MultiSeedPath
    /\ last.env.DB_AUTO_SEED = <<"0">>
    /\ last.err = "nil"
    /\ last.seedDone = 2

\* the usernames a seed file inserts
InsertedUsers(c) ==
    {c[i].row.username : i \in {k \in 1..Len(c) : c[k].kind = "insert" /\ c[k].table = "users"}}

\* the seed file the operation just finished was given
C9_File == IF last'.op = "SeedFromFile" THEN last'.file ELSE SeedPathOf(last'.env)

\* a seed file that inserts a user and was executed without error before in
\* this process has been executed again
C9_SecondRun ==
    /\ last'.op \in {"SeedFromFile", "NewDatabase"}
    /\ last'.seedRan
    /\ C9_File \in seeded
    /\ InsertedUsers(FileAt(cwd, C9_File).content) # {}

C9_Refused ==
    /\ last'.err # "nil"
    /\ (last'.op = "NewDatabase" \/ ConnOf(last'.recv) = "open")
          => last'.err = "UNIQUE constraint failed"
    /\ \A u \in InsertedUsers(FileAt(cwd, C9_File).content) :
          CountUsername(Users(store'), u) = 1

\* C9 as stated: running the same seed file a second time in one process
\* lifetime, when the file inserts a user, fails with a uniqueness error: the
\* second SeedFromFile or auto-seeding NewDatabase returns an error and the
\* number of users with that username stays one.
C9_AsStated == [][ C9_SecondRun => C9_Refused ]_vars

\* C9 amended: the second run fails so while the user row the first run
\* inserted is still in the store.
C9_SecondSeedRefused ==
    [][ ( /\ C9_SecondRun
          /\ \A u \in InsertedUsers(FileAt(cwd, C9_File).content) :
                HasUsername(Users(store), u) )
        => C9_Refused ]_vars

\* a seed file executed before was refused for its username
C9_Witness ==
    /\ last.op = "SeedFromFile"
    /\ last.file \in seeded
    /\ last.seedRan
    /\ last.err = "UNIQUE constraint failed"

\* C3 as stated: the service dispatches requests to its handlers only after
\* Schema Bootstrap and Seed Loader both completed successfully, so a ready
\* service holds a constructed, non-nil adapter and every handler invocation
\* runs against one.
C3_ReadyOnlyAfterBootstrap ==
    /\ svc.pc = "ready" => svc.db # Nil
    /\ last.op = "POST /users" => last.recv # Nil

\* a value of DB_AUTO_SEED that enables seeding: "1", or the four letters of
\* "true" in either case
Truthy(val) ==
    \/ val = <<"1">>
    \/ /\ Len(val) = 4
       /\ val[1] \in {"t", "T"}
       /\ val[2] \in {"r", "R"}
       /\ val[3] \in {"u", "U"}
       /\ val[4] \in {"e", "E"}

\* the schema path a construction under e resolves
SchemaPathOf(e) == IF e.DB_SCHEMA_FILE = "" THEN "pkg/database/schema.sql" ELSE e.DB_SCHEMA_FILE

\* the tables of the built-in schema
BuiltInTables == {"users", "products", "orders"}

\* the tables the schema of a construction under e declares
SchemaTables(e) ==
    LET f == FileAt(cwd, SchemaPathOf(e))
    IN  IF f.ok
        THEN {f.content[i].table : i \in {k \in 1..Len(f.content) : f.content[k].kind = "create"}}
        ELSE BuiltInTables

\* the schema file of a construction under e is readable and holds a
\* statement the engine refuses
SchemaDdlFails(e) ==
    LET f == FileAt(cwd, SchemaPathOf(e))
    IN  f.ok /\ \E i \in 1..Len(f.content) : f.content[i].kind # "create"

\* the seed file of a construction under e was asked for
SeedAttempted == last'.seedCalled /\ SeedPathOf(last'.env) \in last'.read

C4_NoSeed ==
    /\ ~last'.seedCalled
    /\ last'.read = {SchemaPathOf(last'.env)}
    /\ TotalRows(store') = TotalRows(store)

\* C4 as stated: during NewDatabase auto-seeding runs if and only if
\* DB_AUTO_SEED is "1" or equals "true" ignoring case; for every other value
\* no seed file is read and construction adds zero rows to the store.
C4_AsStated ==
    [][ last'.op = "NewDatabase"
        => /\ SeedAttempted <=> Truthy(last'.env.DB_AUTO_SEED)
           /\ ~Truthy(last'.env.DB_AUTO_SEED) => C4_NoSeed ]_vars

\* C4 amended: during a NewDatabase whose schema DDL was applied without
\* error, auto-seeding runs if and only if DB_AUTO_SEED is "1" or equals
\* "true" ignoring case; for every other value, in every construction, no
\* seed file is read and zero rows are added.
C4_AutoSeedIffTruthy ==
    [][ last'.op = "NewDatabase"
        => /\ ~SchemaDdlFails(last'.env)
                => (SeedAttempted <=> Truthy(last'.env.DB_AUTO_SEED))
           /\ SeedAttempted => Truthy(last'.env.DB_AUTO_SEED)
           /\ ~Truthy(last'.env.DB_AUTO_SEED) => C4_NoSeed ]_vars

\* a construction under DB_AUTO_SEED=True executed its seed file
C4_Witness ==
    /\ last.op = "NewDatabase"
    /\ last.env.DB_AUTO_SEED = <<"T", "r", "u", "e">>
    /\ last.seedRan
    /\ last.seedDone >= 1
    /\ last.ret # Nil

\* the store the seed loader of a construction under e finds
C5_Bootstrapped(e) == [store EXCEPT !.tables = @ \cup SchemaTables(e)]

\* the seed file of a construction under e cannot be read or holds a
\* statement the bootstrapped store refuses
C5_SeedFails(e) ==
    LET f == FileAt(cwd, SeedPathOf(e))
    IN  ~f.ok \/ ~ValidInserts(C5_Bootstrapped(e), f.content)

\* C5: when auto-seed is enabled and the seed file cannot be read or its SQL
\* fails to execute, NewDatabase returns an error and no adapter and the
\* connection is closed; when the flag is absent or false the seed step is a
\* no-op: it returns success and leaves the rows of the store as they were.
C5_SeedFailureIsFatal ==
    [][ last'.op = "NewDatabase"
        => /\ (Truthy(last'.env.DB_AUTO_SEED) /\ C5_SeedFails(last'.env))
                => /\ last'.ret = Nil
                   /\ last'.err # "nil"
                   /\ last'.connClosed
                   /\ adapters' = adapters
           /\ ~Truthy(last'.env.DB_AUTO_SEED)
                => /\ ~last'.seedRan
                   /\ store'.rows = store.rows
                   /\ ~SchemaDdlFails(last'.env)
                         => last'.ret # Nil /\ last'.err = "nil" ]_vars

\* an enabled seed file was executed, refused, and the construction failed
C5_Witness ==
    /\ last.op = "NewDatabase"
    /\ Truthy(last.env.DB_AUTO_SEED)
    /\ last.seedRan
    /\ last.err # "nil"
    /\ last.ret = Nil
    /\ last.connClosed

\* C6: NewDatabase applies the DDL read from the path in DB_SCHEMA_FILE, or
\* from pkg/database/schema.sql when the variable is empty, whenever that file
\* is readable, and the built-in schema if and only if the read fails; a read
\* failure never makes NewDatabase fail at the schema, and the tables of
\* exactly one of the two schemas are added by a construction.
C6_SchemaFileOrBuiltIn ==
    [][ last'.op = "NewDatabase"
        => LET e == last'.env
               readable == FileAt(cwd, SchemaPathOf(e)).ok
           IN  /\ last'.schemaPath = SchemaPathOf(e)
               /\ SchemaPathOf(e) \in last'.read
               /\ last'.schemaFrom \in {"file", "embedded"}
               /\ last'.schemaFrom = "file" <=> readable
               /\ last'.schemaFrom = "embedded" <=> ~readable
               /\ ~readable => last'.stage # "schema"
               /\ last'.ret # Nil => store'.tables = store.tables \cup SchemaTables(e) ]_vars

\* a construction whose schema file was missing succeeded on the built-in schema
C6_Witness ==
    /\ last.op = "NewDatabase"
    /\ last.env.DB_SCHEMA_FILE = MissingPath
    /\ last.schemaFrom = "embedded"
    /\ last.ret # Nil
    /\ store.tables = BuiltInTables

\* C7: if applying the schema DDL fails, NewDatabase returns a nil adapter and
\* an error, closes the connection it opened, and does not run the seed loader.
C7_DdlFailureIsFatal ==
    (last.op = "NewDatabase" /\ SchemaDdlFails(last.env))
    => /\ last.ret = Nil
       /\ last.err # "nil"
       /\ last.connClosed
       /\ ~last.seedCalled
       /\ ~last.seedRan
       /\ last.read = {SchemaPathOf(last.env)}

\* a construction with seeding enabled stopped at a schema the engine refused
C7_Witness ==
    /\ last.op = "NewDatabase"
    /\ last.env.DB_SCHEMA_FILE = BadSchemaPath
    /\ Truthy(last.env.DB_AUTO_SEED)
    /\ last.stage = "schema"
    /\ last.err = "syntax error"

\* a sequence begins with another
IsPrefix(s, t) == Len(s) <= Len(t) /\ \A i \in 1..Len(s) : t[i] = s[i]

\* C10: bootstrapping a second time with the same valid schema succeeds: the
\* second bootstrap creates no duplicate table, reports no "already exists"
\* failure and does not alter the rows already in users, products or orders.
C10_BootstrapIdempotent ==
    [][ ( /\ last'.op = "NewDatabase"
          /\ ~SchemaDdlFails(last'.env)
          /\ SchemaTables(last'.env) \subseteq store.tables )
        => /\ last'.stage # "schema"
           /\ last'.err # "table already exists"
           /\ store'.tables = store.tables
           /\ store'.unique = store.unique
           /\ \A t \in DataTables : IsPrefix(store.rows[t], store'.rows[t]) ]_vars

\* a second construction succeeded over a store that held a user
C10_Witness ==
    /\ last.op = "NewDatabase"
    /\ last.ret = 2
    /\ adapters[1] = "open"
    /\ last.seedDone = 0
    /\ last.err = "nil"
    /\ Len(Users(store)) >= 1

\* the statement of a text whose first word is SELECT in some case
IsReadOf(q) == Len(q.kw) = 6 /\ BeginsWithSelect(q.kw) /\ q.body.kind = "select"

\* the rows of users whose username is the text between the quotes of w, for
\* a clause username = '...' whose text holds no quote; every row for no clause
C11_NoMatch(st, sel) ==
    /\ sel.table \in st.tables \cap DataTables
    /\ \/ sel.where.all /\ st.rows[sel.table] = <<>>
       \/ /\ sel.table = "users"
          /\ IsText(sel.where)
          /\ \E name \in {"alice", "bob", "nobody"} :
                /\ sel.where.text = <<"username", "=", "'", name, "'">>
                /\ ~HasUsername(Users(st), name)

\* C11: a read that matches zero rows returns an empty, non-nil row sequence
\* and a nil error.
C11_EmptyResultIsNotAnError ==
    [][ ( /\ last'.op = "ExecuteQuery"
          /\ ConnOf(last'.recv) = "open"
          /\ IsReadOf(last'.query)
          /\ C11_NoMatch(store, last'.query.body) )
        => /\ ~last'.rows.isNil
           /\ last'.rows.elems = <<>>
           /\ last'.err = "nil" ]_vars

\* a read by a name no row carries returned no row from a table that holds one
C11_Witness ==
    /\ last.op = "ExecuteQuery"
    /\ last.query.body = ByInput(Word("nobody"))
    /\ Len(Users(store)) >= 1
    /\ last.rows = Rows(<<>>)
    /\ last.err = "nil"

\* the columns of a statement's result set in the order the schema and the
\* statement give them
C12_EngineColumns(sel) ==
    IF sel.table = "users" THEN <<"id", "username", "email", "password">>
    ELSE IF sel.table = "products" THEN <<"id", "name">>
    ELSE <<"id", "user_id", "product_id">>

\* C12 as stated: for a read, ExecuteQuery returns the rows in the order the
\* engine returned them, and each returned row preserves the column order of
\* the result set, with one entry per result column mapping the column name
\* to its value.
C12_RowAndColumnOrder ==
    ( /\ last.op = "ExecuteQuery"
      /\ ConnOf(last.recv) = "open"
      /\ IsReadOf(last.query)
      /\ last.query.body.where.all
      /\ last.err = "nil" )
    => LET sel == last.query.body
           engine == store.rows[sel.table]
           cols == C12_EngineColumns(sel)
       IN  /\ Len(last.rows.elems) = Len(engine)
           /\ \A k \in 1..Len(engine) :
                 /\ DOMAIN last.rows.elems[k] = {cols[i] : i \in 1..Len(cols)}
                 /\ \A c \in DOMAIN last.rows.elems[k] : last.rows.elems[k][c] = engine[k][c]
                 /\ \A o \in KeyOrders(last.rows.elems[k]) : o = cols

\* an ExecuteQuery or CreateUser call on an adapter has returned an error
C13_Failed ==
    /\ last'.op \in {"ExecuteQuery", "CreateUser"}
    /\ last'.recv # Nil
    /\ last'.err # "nil"

\* the statements of the text the failed call was given
C13_Statements ==
    IF last'.op = "CreateUser" \/ IsReadOf(last'.query) THEN <<>>
    ELSE <<last'.query.body>> \o Rest(last'.query)

\* the store after the statements of a text that precede the first one the
\* engine refuses
RECURSIVE C13_UpToRefused(_, _)
C13_UpToRefused(st, stmts) ==
    IF stmts = <<>> THEN st
    ELSE IF ExecStmt(st, Head(stmts)).err # "nil" THEN st
    ELSE C13_UpToRefused(ExecStmt(st, Head(stmts)).store, Tail(stmts))

C13_Aborted ==
    /\ last'.rows.isNil
    /\ last'.calls <= 1
    /\ Len(last'.trace) <= 2

\* C13 as stated: any execution failure in ExecuteQuery or CreateUser aborts
\* only that one operation: the call returns the error with no rows, the
\* engine is called at most once, and the store contents are the same as
\* before the failed call.
C13_AsStated == [][ C13_Failed => (C13_Aborted /\ store' = store) ]_vars

\* C13 amended: the call returns the error with no rows and the engine is
\* called at most once; the store is as before the call when the text holds
\* one statement, and when it holds several the statements before the
\* refused one stay in effect and none after it runs.
C13_FailureAbortsOperation ==
    [][ C13_Failed
        => /\ C13_Aborted
           /\ Len(C13_Statements) <= 1 => store' = store
           /\ (Len(C13_Statements) > 1 /\ ConnOf(last'.recv) = "open")
                 => store' = C13_UpToRefused(store, C13_Statements) ]_vars

\* a text of two statements failed at its second
C13_Witness ==
    /\ last.op = "ExecuteQuery"
    /\ Rest(last.query) = <<Garbage>>
    /\ last.err = "syntax error"
    /\ HasUsername(Users(store), "bob")

\* a GetUserByUsername call on an open adapter has returned
C14_Returned == last.op = "GetUserByUsername" /\ ConnOf(last.recv) = "open"

\* the rows of users whose username is the requested one
C14_Matching ==
    {i \in 1..Len(Users(store)) : Word(Users(store)[i].username) = last.arg}

C14_Lookup ==
    /\ last.err = "nil"
    /\ ~last.user.isNil
    /\ IF C14_Matching = {}
       THEN last.user.rec = [id |-> 1, username |-> last.arg,
                             email |-> "user@example.com",
                             password |-> "482c811da5d5b4bc6d497ffa98491e38"]
       ELSE \E i \in C14_Matching :
               last.user.rec = [id |-> Users(store)[i].id,
                                username |-> Word(Users(store)[i].username),
                                email |-> Users(store)[i].email,
                                password |-> Users(store)[i].password]

\* C14 as stated: GetUserByUsername, when no users row matches the requested
\* username, returns a nil error and the placeholder record with id 1, the
\* requested username, email "user@example.com" and password
\* "482c811da5d5b4bc6d497ffa98491e38"; when a row matches it returns that
\* row's id, username, email and password.
C14_AsStated == C14_Returned => C14_Lookup

\* the requested username holds no single quote
C14_NoQuote == \A i \in 1..Len(last.arg) : last.arg[i] # "'"

\* C14 amended: so for a requested username that holds no single quote.
C14_PlaceholderOrRow == (C14_Returned /\ C14_NoQuote) => C14_Lookup

\* a name no row carries was looked up in a table that holds a row
C14_Witness ==
    /\ C14_Returned
    /\ last.arg = Word("nobody")
    /\ Len(Users(store)) >= 1
    /\ last.user.rec.id = 1
    /\ last.user.rec.username = Word("nobody")

\* SELECT * FROM users WHERE username = 'u', as a caller writes it
C15_SelectByName(u) == Query(<<>>, SELECT, Select("users", Cond(<<"username", "=", "'", u, "'">>)))

C16_Injected ==
    Select("users", Cond(<<"username", "=", "'", "x", "'", "OR", "'", "1", "'", "=", "'", "1", "'">>))

\* C16: the engine receives the caller's text as it is, so a SELECT whose
\* WHERE clause was closed by interpolated input and extended with an
\* always-true disjunct returns every row of users.
C16_InjectedReadReturnsAll ==
    ( /\ last.op = "ExecuteQuery"
      /\ ConnOf(last.recv) = "open"
      /\ IsReadOf(last.query)
      /\ last.query.body = C16_Injected )
    => /\ last.err = "nil"
       /\ ~last.rows.isNil
       /\ Len(last.rows.elems) = Len(Users(store))
       /\ \A k \in 1..Len(Users(store)) :
             last.rows.elems[k].username = Users(store)[k].username

\* the injected read returned both users
C16_Witness ==
    /\ last.op = "ExecuteQuery"
    /\ last.query.body = C16_Injected
    /\ Len(last.rows.elems) = 2
    /\ {last.rows.elems[k].username : k \in 1..2} = {"alice", "bob"}

\* the events of a trace that print a line
C17_Printed(trace) == {i \in 1..Len(trace) : trace[i].ev = "print"}

\* C17: every ExecuteQuery invocation emits one log line containing the SQL
\* text verbatim, before the statement is run, whether the statement later
\* succeeds or fails.
C17_LoggedBeforeRun ==
    last.op = "ExecuteQuery"
    => /\ C17_Printed(last.trace) = {1}
       /\ last.trace[1].line = <<"Executing query: ">> \o last.text \o <<"\n">>
       /\ last.text = last.query.lead \o last.query.kw \o <<" ", "...">>
       /\ \A i \in 2..Len(last.trace) : last.trace[i].ev \in {"Exec", "Query"}
       /\ (last.recv # Nil) => Len(last.trace) = 2

\* a statement was logged and then refused
C17_Witness ==
    /\ last.op = "ExecuteQuery"
    /\ last.err = "syntax error"
    /\ last.trace[1].ev = "print"
    /\ Len(last.trace) = 2

C19_WrongKey ==
    /\ last.gw.header.present
    /\ last.gw.header.value # ""
    /\ last.gw.header.value # APIKey

C19_Rejected == last.gw.aborted /\ last.gw.status = 401 /\ ~last.gw.reached

C19_RejectsExactlyWrongKeys ==
    last.gw.served =>
        /\ C19_Rejected <=> C19_WrongKey
        /\ (~last.gw.header.present \/ last.gw.header.value = APIKey)
              => last.gw.reached /\ ~last.gw.aborted

\* a request with a wrong key was turned away
C19_Witness ==
    /\ last.gw.served
    /\ C19_WrongKey
    /\ C19_Rejected

\* C20: for every gateway route, the proxied request goes to the configured
\* service base URL followed by the backend path in which each ':name'
\* placeholder is replaced by that request's value of the parameter, plus the
\* original query string; the upstream status code and body are returned
\* unchanged, and an upstream connection failure yields 502.
RECURSIVE C20_JoinPath(_)
C20_JoinPath(segs) ==
    IF Len(segs) = 1 THEN Head(segs)
    ELSE Head(segs) \o <<"/">> \o C20_JoinPath(Tail(segs))

\* the backend path with the value in the place of each ':name' segment
C20_BackendPath(path, value) ==
    LET segs == SplitPath(path, <<>>)
    IN  C20_JoinPath([i \in 1..Len(segs) |->
                         IF IsParam(segs[i]) THEN value ELSE segs[i]])

C20_Target ==
    gateway.urls[last.gw.route.service]
        \o C20_BackendPath(last.gw.route.path, last.gw.value)
        \o (IF last.gw.rawQuery = <<>> THEN <<>> ELSE <<"?">> \o last.gw.rawQuery)

C20_ProxyTargetAndPassThrough ==
    (last.gw.served /\ last.gw.sent) =>
        /\ last.gw.target = C20_Target
        /\ last.gw.upstream.connected =>
              /\ last.gw.status = last.gw.upstream.status
              /\ last.gw.body = last.gw.upstream.body
        /\ ~last.gw.upstream.connected => last.gw.status = 502

\* C21: POST /login with a parsable body responds 200 with a token if and
\* only if GetUserByUsername returns a record and the hex MD5 of the submitted
\* password equals that record's password field; in every other case it
\* responds 401 and issues no token.
C21_Login == last.op = "POST /login" /\ last.body.ok

C21_Accepted == last.status = 200 /\ last.token # ""

C21_Matches ==
    /\ ~last.user.isNil
    /\ hashPasswordMD5(last.body.password) = last.user.rec.password

C22_Bad(f) == f.err # "nil" \/ f.status # 200

C22_Posted ==
    /\ last'.op = "POST /orders"
    /\ last'.order.posted
    /\ C22_Bad(last'.order.userFetch) \/ C22_Bad(last'.order.prodFetch)

\* one Get per service, and "{}" where the fetch was bad
C22_Swallowed ==
    /\ last'.order.gets = <<"users", "products">>
    /\ C22_Bad(last'.order.userFetch) => last'.order.userSnap = <<"{", "}">>
    /\ C22_Bad(last'.order.prodFetch) => last'.order.prodSnap = <<"{", "}">>

\* the orders table gained one row carrying the two snapshots
C22_Inserted ==
    /\ "orders" \in store'.tables
    /\ Len(store'.rows["orders"]) = Len(store.rows["orders"]) + 1
    /\ SubSeq(store'.rows["orders"], 1, Len(store.rows["orders"])) = store.rows["orders"]
    /\ LET row == store'.rows["orders"][Len(store'.rows["orders"])]
       IN  /\ row.user_id = last'.order.o.UserID
           /\ row.product_id = last'.order.o.ProductID
           /\ row.user_snapshot = last'.order.userSnap
           /\ row.product_snapshot = last'.order.prodSnap

C23_Members == last.config.file.members

\* the members that name the field f, by position
C23_Naming(f) == {i \in 1..Len(C23_Members) : ToLower(C23_Members[i].k) = Tag(f)}

C23_Defaults ==
    (last.config.path = "" \/ ~last.config.file.readable)
        => last.config.ret = DefaultConfig

C23_Fitting(f) == {i \in C23_Naming(f) : C23_Members[i].v.t = FieldType(f)}

C24_FirstOf(values) ==
    IF \E i \in 1..Len(values) : values[i] # ""
    THEN values[CHOOSE i \in 1..Len(values) :
                    /\ values[i] # ""
                    /\ \A j \in 1..(i - 1) : values[j] = ""]
    ELSE Null

C24_Env(name) == IF last.scan.in.env[name].present THEN last.scan.in.env[name].value ELSE ""

\* the package takes its environment from PACKAGE_FILE, then PACKAGE_NAME; the
\* scope that no source sets is the default of the parameter
C24_Precedence ==
    last.scan.ran =>
        /\ last.scan.out.ApiUrl.Value =
              C24_FirstOf(<<last.scan.in.FodApiUrl, C24_Env("FOD_API_URL"),
                            last.scan.in.fodConfig.FodApiUrl>>)
        /\ last.scan.out.Pkg.Value =
              C24_FirstOf(<<last.scan.in.PackageName, C24_Env("PACKAGE_FILE"),
                            C24_Env("PACKAGE_NAME"), last.scan.in.fodConfig.PackageFile>>)
        /\ last.scan.out.ApiScope.Value =
              C24_FirstOf(<<IF last.scan.in.ApiScopeBound THEN last.scan.in.ApiScope ELSE "",
                            C24_Env("API_SCOPE"), last.scan.in.fodConfig.ApiScope,
                            "api-tenant">>)

\* C25: under any interleaving of two concurrent POST /users requests
\* carrying the same new username, exactly one inserts the row and answers
\* 201, the other receives the uniqueness error and answers 500, and the users
\* table ends with exactly one row for that username, although the adapter
\* takes no lock.
C25_Carrying(u) == {i \in Requests : reqs[i].pc # "idle" /\ reqs[i].username = u}

C25_RowsFor(u) ==
    Cardinality({k \in 1..Len(store.rows["users"]) : store.rows["users"][k].username = u})

\* all the requests carrying u are answered, u was new to the first of them
\* and at least two of them overlapped
C25_Raced(u) ==
    /\ \A i \in C25_Carrying(u) : reqs[i].pc = "done"
    /\ \E i \in C25_Carrying(u) : reqs[i].fresh
    /\ \E i \in C25_Carrying(u) : reqs[i].raced

C25_OneWins(u) ==
    /\ \E i \in C25_Carrying(u) :
          /\ reqs[i].status = 201
          /\ \A j \in C25_Carrying(u) \ {i} :
                /\ reqs[j].status = 500
                /\ reqs[j].err = "UNIQUE constraint failed"
    /\ C25_RowsFor(u) = 1

C26_Constructed(ad) == {a \in Adapters : ad[a] # "unused"}

\* GetUserByUsername through an adapter in connState returns the row of u
C26_Reads(connState, st, u, email) ==
    LET r == GetUserByUsername(FALSE, connState, st, Word(u))
    IN  /\ r.err = "nil"
        /\ ~r.user.isNil
        /\ r.user.rec.username = Word(u)
        /\ r.user.rec.email = email

\* a row was written through an adapter by this step
C26_Written ==
    /\ last'.op = "CreateUser"
    /\ last'.recv # Nil
    /\ last'.err = "nil"

\* this step constructed an adapter while another one was open
C26_Joined ==
    /\ last'.op = "NewDatabase"
    /\ last'.ret # Nil
    /\ OpenAdapters(adapters) # {}

\* the rows the earlier adapters left are read through the new adapter
C26_NewAdapterSees ==
    C26_Joined =>
        \A k \in 1..Len(store.rows["users"]) :
            C26_Reads(adapters'[last'.ret], store', store.rows["users"][k].username,
                      store.rows["users"][k].email)

C26_AsStated ==
    [][/\ C26_Written =>
             \A b \in C26_Constructed(adapters') \ {last'.recv} :
                 C26_Reads(adapters'[b], store', last'.username, "a@example.com")
       /\ C26_NewAdapterSees]_vars

\* C26 as the code has it: the row is returned by reads through every other
\* open adapter; a read through an adapter that was closed fails with
\* "sql: database is closed" whatever the store holds
C26_SharedStore ==
    [][/\ C26_Written =>
             \A b \in C26_Constructed(adapters') \ {last'.recv} :
                 IF adapters'[b] = "open"
                 THEN C26_Reads("open", store', last'.username, "a@example.com")
                 ELSE GetUserByUsername(FALSE, adapters'[b], store',
                                        Word(last'.username)).err = "sql: database is closed"
       /\ C26_NewAdapterSees]_vars

\* a row written through one of two open adapters
C26_Witness ==
    /\ last.op = "CreateUser"
    /\ last.recv # Nil
    /\ last.err = "nil"
    /\ OpenAdapters(adapters) = Adapters
    /\ C26_Reads("open", store, last.username, "a@example.com")

\* C27: for every username that has no row in users, POST /login with that
\* username and the password "password123" responds 200 and issues a token,
\* because the placeholder record's password equals the hex MD5 of
\* "password123"; with any other password it responds 401.
C27_Password123 == <<"p", "a", "s", "s", "w", "o", "r", "d", "1", "2", "3">>

C27_NoRow ==
    /\ last.op = "POST /login"
    /\ last.body.ok
    /\ \A k \in 1..Len(store.rows["users"]) :
          Word(store.rows["users"][k].username) # last.body.username

C27_Issued == last.status = 200 /\ last.token # ""

C27_AsStated ==
    C27_NoRow =>
        IF last.body.password = C27_Password123 THEN C27_Issued
        ELSE last.status = 401

\* the username holds no apostrophe
C27_Plain == \A i \in 1..Len(last.body.username) : last.body.username[i] # "'"

\* C27 as the code has it: so it is for a username without an apostrophe when
\* main constructed the adapter. A username with an apostrophe changes the
\* query built around it: when the query fails the answer is 401 whatever the
\* password, and when it selects the row of another user the password is
\* compared with that row's. When db is nil the handler faults: 500, no token.
C27_PlaceholderLogin ==
    C27_NoRow =>
        IF svc.db = Nil THEN last.status = 500 /\ last.token = ""
        ELSE IF C27_Plain
        THEN /\ last.user = User(Placeholder(last.body.username))
             /\ IF last.body.password = C27_Password123 THEN C27_Issued
                ELSE last.status = 401 /\ last.token = ""
        ELSE IF last.user.isNil THEN last.status = 401 /\ last.token = ""
        ELSE IF hashPasswordMD5(last.body.password) = last.user.rec.password
        THEN C27_Issued
        ELSE last.status = 401 /\ last.token = ""

\* a login as a user nobody created, with password123
C27_Witness ==
    /\ C27_NoRow
    /\ svc.db # Nil
    /\ last.body.username = Word("nobody")
    /\ last.body.password = C27_Password123
    /\ C27_Issued

\* C28: seeding is not atomic: when statement k of a multi-statement seed
\* file fails, SeedFromFile returns the error without rolling back, so the rows
\* inserted by statements 1..k-1 remain in the store, also when the failure
\* makes NewDatabase return an error.
C28_SeedFile(o) ==
    ReadFile(cwd, IF o.op = "SeedFromFile" THEN o.file ELSE SeedPathOf(o.env)).content

\* the step ran a seed file whose statement seedDone + 1 failed
C28_FailedAt(o) ==
    /\ o.op \in {"SeedFromFile", "NewDatabase"}
    /\ o.seedRan
    /\ o.err \notin {"nil", "sql: database is closed"}

\* the row of statement s is in st
C28_Holds(st, s) ==
    \E k \in 1..Len(st.rows[s.table]) :
        \A f \in DOMAIN s.row : st.rows[s.table][k][f] = s.row[f]

\* the rows of the first n statements are in st
C28_Remain(st, stmts, n) == \A i \in 1..n : C28_Holds(st, stmts[i])

C28_AsStated ==
    [][C28_FailedAt(last') =>
          /\ last'.err # "nil"
          /\ C28_Remain(store', C28_SeedFile(last'), last'.seedDone)]_vars

\* C28 as the code has it: the rows remain after SeedFromFile, and after a
\* failed NewDatabase while another adapter keeps the store open; when the
\* failed NewDatabase held the only connection, closing it drops the
\* in-memory database and the rows of statements 1..k-1 with it
C28_SeedingNotAtomic ==
    [][C28_FailedAt(last') =>
          /\ last'.err # "nil"
          /\ IF last'.op = "NewDatabase" /\ OpenAdapters(adapters') = {}
             THEN last'.ret = Nil /\ store' = EmptyStore
             ELSE C28_Remain(store', C28_SeedFile(last'), last'.seedDone)]_vars

\* NewDatabase failed at the third statement of its seed while another adapter
\* was open: the product and the user of the first two statements are there
C28_Witness ==
    /\ last.op = "NewDatabase"
    /\ last.ret = Nil
    /\ last.seedRan
    /\ last.seedDone = 2
    /\ last.err = "UNIQUE constraint failed"
    /\ C28_Remain(store, dupSeed, 2)

\* C29: on a nil adapter or an adapter with no connection, Close and
\* SeedFromFile return nil and do nothing, and AutoSeedFromEnv returns nil
\* whatever the flag; ExecuteQuery, CreateUser and GetUserByUsername have no
\* such guard and fault when called on such an adapter.
C29_Guarded == {"Close", "SeedFromFile", "AutoSeedFromEnv"}

C29_Unguarded == {"ExecuteQuery", "CreateUser", "GetUserByUsername"}

C29_NilReceiverGuards ==
    [][last'.recv \in {Nil, Zero} =>
          /\ last'.op \in C29_Guarded =>
                /\ last'.err = "nil"
                /\ ~last'.panicked
                /\ last'.read = {}
                /\ ~last'.seedRan
                /\ ~last'.connClosed
                /\ UNCHANGED <<store, adapters, seeded>>
          /\ last'.op \in C29_Unguarded =>
                /\ last'.panicked
                /\ last'.calls = 0
                /\ UNCHANGED <<store, adapters, seeded>>]_vars

\* AutoSeedFromEnv with the flag set, on an adapter without a connection
\* beside an open adapter
C29_Witness ==
    /\ last.op = "AutoSeedFromEnv"
    /\ last.recv = Zero
    /\ AutoSeedEnabled(last.env.DB_AUTO_SEED)
    /\ last.seedCalled
    /\ last.err = "nil"
    /\ OpenAdapters(adapters) # {}

\* C30: for every package file of length L > 0 and every chunk size C > 0,
\* the upload loop terminates after sending fragments whose offsets start at 0
\* and advance by the bytes read with no gap or overlap until L is reached;
\* fragments are numbered 0, 1, 2, ... in order except the last one, and
\* exactly one fragment, the last, is sent with fragment number -1.
C30_Sent == upload.sent

C30_Ended == upload.pc \in {"done", "failed"}

\* the offsets start at 0 and each is the one before plus the bytes read
C30_Contiguous ==
    /\ C30_Sent # <<>> => C30_Sent[1].offset = 0
    /\ \A i \in 1..(Len(C30_Sent) - 1) :
          C30_Sent[i + 1].offset = C30_Sent[i].offset + C30_Sent[i].bytesRead

\* the fragments before the last carry 0, 1, 2, ...
C30_Numbered ==
    \A i \in 1..(Len(C30_Sent) - 1) : C30_Sent[i].fragNo = i - 1

\* the fragments reached the end of the file, and the one that did is the
\* only one sent as -1
C30_Complete ==
    /\ C30_Sent # <<>>
    /\ C30_Sent[Len(C30_Sent)].offset + C30_Sent[Len(C30_Sent)].bytesRead = upload.fileLength
    /\ C30_Sent[Len(C30_Sent)].fragNo = -1
    /\ \A i \in 1..(Len(C30_Sent) - 1) : C30_Sent[i].fragNo # -1

C30_AsStated ==
    C30_Ended => C30_Contiguous /\ C30_Numbered /\ C30_Complete

\* what holds of the fragments at every moment of the loop
C30_Safety ==
    /\ C30_Contiguous
    /\ C30_Numbered
    /\ \A i \in 1..Len(C30_Sent) :
          /\ C30_Sent[i].bytesRead >= 1
          /\ C30_Sent[i].length =
                readSizeOf(upload.fileLength, C30_Sent[i].offset, upload.ChunkSize)
          /\ C30_Sent[i].bytesRead <= C30_Sent[i].length
          /\ C30_Sent[i].offset + C30_Sent[i].bytesRead <= upload.fileLength
          /\ C30_Sent[i].fragNo = -1 <=>
                C30_Sent[i].offset + C30_Sent[i].bytesRead = upload.fileLength
          /\ ~C30_Sent[i].ok => i = Len(C30_Sent) /\ upload.pc = "failed"
    /\ (upload.pc = "done" /\ ~upload.broke) =>
          C30_Complete /\ C30_Sent[Len(C30_Sent)].ok
    /\ (upload.pc = "done" /\ upload.broke) =>
          /\ upload.offset < upload.fileLength
          /\ \A i \in 1..Len(C30_Sent) : C30_Sent[i].fragNo # -1
    /\ upload.pc = "failed" =>
          /\ upload.offset < upload.fileLength
          /\ ~C30_Sent[Len(C30_Sent)].ok

\* C30 as the code has it: the loop always terminates; it sends the fragments
\* as stated when every read returns bytes and every POST returns. A read of
\* no bytes ends the loop before the end of the file with no fragment sent as
\* -1, and a POST that throws ends the script at that fragment. Every fragment
\* carries the whole buffer of the size asked for, also after a shorter read.
C30_UploadLoop ==
    /\ []C30_Safety
    /\ (upload.pc = "loop") ~> C30_Ended

\* a file of four bytes sent in chunks of three: fragment 0 at offset 0 and
\* fragment -1 at offset 3
C30_Witness ==
    /\ upload.pc = "done"
    /\ ~upload.broke
    /\ upload.fileLength = 4
    /\ upload.ChunkSize = 3
    /\ Len(upload.sent) = 2
    /\ upload.sent[1] = Fragment(0, 0, 3, 3, TRUE)
    /\ upload.sent[2] = Fragment(-1, 3, 1, 1, TRUE)

====
